---------------------------- MODULE Spec2Model ----------------------------
(***************************************************************************)
(* Category semantic-matching engine of the Naver DataLab MCP server:      *)
(* the hard-coded-embedding ranker (searchSimilarCategories), the search   *)
(* by embedding alone (searchCategories), the lexical path scorer          *)
(* (calculatePathSimilarity), the query pseudo-embedding and               *)
(* cosineSimilarity.                                                       *)
(*                                                                         *)
(* Representation.                                                         *)
(*  - A string is a sequence of UTF-16 code units (naturals).              *)
(*  - An IEEE double is a fixed-point integer.  Path scores and cosine     *)
(*    similarities are in thousandths (1000 = 1.0); vector components are  *)
(*    in ten-thousandths (10000 = 1.0); a combined score is in thousandths *)
(*    of a percent (30000 = 30).  A double that may be NaN is a record     *)
(*    [nan, v].                                                            *)
(***************************************************************************)
EXTENDS Integers, Sequences, FiniteSets, TLC

(***************************************************************************)
(* Bounds of the model.                                                    *)
(***************************************************************************)
MaxQueryLen == 2
MaxCatalog == 2
MaxLimit == 2
MaxRepeat == 6

(***************************************************************************)
(* Arithmetic helpers.                                                     *)
(***************************************************************************)
Max(a, b) == IF a >= b THEN a ELSE b
Min(a, b) == IF a <= b THEN a ELSE b
Abs(a) == IF a < 0 THEN -a ELSE a

\* Division of doubles, rounded toward zero in the fixed-point grid.
TruncDiv(a, b) == IF (a < 0) = (b < 0) THEN Abs(a) \div Abs(b) ELSE -(Abs(a) \div Abs(b))

RECURSIVE SqrtSearch(_, _, _)
SqrtSearch(n, lo, hi) ==
    IF lo >= hi THEN lo
    ELSE LET mid == (lo + hi + 1) \div 2
         IN IF mid * mid <= n THEN SqrtSearch(n, mid, hi) ELSE SqrtSearch(n, lo, mid - 1)

\* Math.sqrt on the fixed-point grid (rounded down).
Sqrt(n) == SqrtSearch(n, 0, Min(n, 46340))

RECURSIVE SumRange(_, _, _)
\* f[lo] + ... + f[hi]
SumRange(f, lo, hi) ==
    IF lo > hi THEN 0
    ELSE IF lo = hi THEN f[lo]
    ELSE LET mid == (lo + hi) \div 2
         IN SumRange(f, lo, mid) + SumRange(f, mid + 1, hi)

SumSeq(s) == SumRange(s, 1, Len(s))

RECURSIVE Concat(_)
\* The concatenation of a sequence of sequences.
Concat(seqs) == IF seqs = <<>> THEN <<>> ELSE Head(seqs) \o Concat(Tail(seqs))

(***************************************************************************)
(* Doubles that may be NaN.                                                *)
(***************************************************************************)
NaN == [nan |-> TRUE, v |-> 0]
Num(x) == [nan |-> FALSE, v |-> x]

(***************************************************************************)
(* String primitives of JavaScript used by the engine.                     *)
(***************************************************************************)
Space == 32
IsSpace(c) == c \in {9, 10, 11, 12, 13, 32, 160}

\* String.prototype.toLowerCase on the code units the model uses.
toLowerCase(s) == [i \in 1..Len(s) |-> IF s[i] \in 65..90 THEN s[i] + 32 ELSE s[i]]

\* String.prototype.includes
Includes(hay, needle) ==
    \E i \in 1..(Len(hay) - Len(needle) + 1) : SubSeq(hay, i, i + Len(needle) - 1) = needle

\* String.prototype.startsWith at position i
MatchesAt(s, i, sep) ==
    /\ i + Len(sep) - 1 <= Len(s)
    /\ SubSeq(s, i, i + Len(sep) - 1) = sep

RECURSIVE SkipSpaces(_, _)
SkipSpaces(s, i) == IF i <= Len(s) /\ IsSpace(s[i]) THEN SkipSpaces(s, i + 1) ELSE i

RECURSIVE SplitWsFrom(_, _, _, _)
SplitWsFrom(s, i, cur, acc) ==
    IF i > Len(s) THEN Append(acc, cur)
    ELSE IF IsSpace(s[i]) THEN SplitWsFrom(s, SkipSpaces(s, i), <<>>, Append(acc, cur))
    ELSE SplitWsFrom(s, i + 1, Append(cur, s[i]), acc)

\* s.split(/\s+/): a leading or trailing run of white space leaves an empty
\* string at that end, and the empty string splits into one empty string.
SplitWs(s) == SplitWsFrom(s, 1, <<>>, <<>>)

RECURSIVE SplitOnFrom(_, _, _, _, _)
SplitOnFrom(s, sep, i, cur, acc) ==
    IF i > Len(s) THEN Append(acc, cur)
    ELSE IF MatchesAt(s, i, sep) THEN SplitOnFrom(s, sep, i + Len(sep), <<>>, Append(acc, cur))
    ELSE SplitOnFrom(s, sep, i + 1, Append(cur, s[i]), acc)

\* The separator of path segments, ' > '.
PathSep == <<32, 62, 32>>

\* categoryPath.split(' > ')
SplitPath(s) == SplitOnFrom(s, PathSep, 1, <<>>, <<>>)

RECURSIVE JoinPath(_)
JoinPath(segs) ==
    IF Len(segs) = 0 THEN <<>>
    ELSE IF Len(segs) = 1 THEN segs[1]
    ELSE segs[1] \o PathSep \o JoinPath(Tail(segs))

\* queryWord.split('').filter(char => pathWord.includes(char)).length
CommonChars(word, pathWord) ==
    Cardinality({i \in 1..Len(word) : \E j \in 1..Len(pathWord) : pathWord[j] = word[i]})

\* commonChars.length / Math.max(word.length, pathWord.length); 0/0 is NaN
CharOverlap(word, pathWord) ==
    IF Max(Len(word), Len(pathWord)) = 0 THEN NaN
    ELSE Num((1000 * CommonChars(word, pathWord)) \div Max(Len(word), Len(pathWord)))

\* x > threshold for a double x: false when x is NaN
Exceeds(x, threshold) == ~x.nan /\ x.v > threshold


(***************************************************************************)
(* Hangul Decomposer: decomposeHangul.  The result is the array of         *)
(* one-character strings, each given by its code unit.                     *)
(***************************************************************************)
\* The first and last precomposed syllables, U+AC00 and U+D7A3.
SyllableFirst == 44032
SyllableLast == 55203

\* The jamo pushed for one code unit.
JamoOf(char) ==
    IF char >= SyllableFirst /\ char <= SyllableLast
    THEN LET syllable == char - SyllableFirst
             initial == (syllable \div 28) \div 21
             medial == (syllable % (28 * 21)) \div 28
             final == syllable % 28
         IN IF final > 0
            THEN <<4352 + initial, 4449 + medial, 4519 + final>>
            ELSE <<4352 + initial, 4449 + medial>>
    ELSE <<char>>

\* The decomposer with the test of the trailing slot off by one.
JamoOfAlwaysFinal(char) ==
    IF char >= SyllableFirst /\ char <= SyllableLast
    THEN LET syllable == char - SyllableFirst
         IN <<4352 + ((syllable \div 28) \div 21),
              4449 + ((syllable % (28 * 21)) \div 28),
              4519 + (syllable % 28)>>
    ELSE <<char>>

RECURSIVE decomposeHangulFrom(_, _)
decomposeHangulFrom(str, i) ==
    IF i > Len(str) THEN <<>>
    ELSE JamoOf(str[i]) \o decomposeHangulFrom(str, i + 1)

RECURSIVE decomposeHangulAlwaysFinal(_)
\* decomposeHangul with `final >= 0' in place of `final > 0'.
decomposeHangulAlwaysFinal(str) ==
    IF Len(str) = 0 THEN <<>>
    ELSE JamoOfAlwaysFinal(str[1]) \o decomposeHangulAlwaysFinal(Tail(str))

RECURSIVE decomposeHangulDroppingOthers(_)
\* decomposeHangul without its else branch.
decomposeHangulDroppingOthers(str) ==
    IF Len(str) = 0 THEN <<>>
    ELSE (IF str[1] >= SyllableFirst /\ str[1] <= SyllableLast THEN JamoOf(str[1]) ELSE <<>>)
         \o decomposeHangulDroppingOthers(Tail(str))

decomposeHangul(str) == decomposeHangulFrom(str, 1)

(***************************************************************************)
(* Compound Word Splitter: decomposeCompoundWord.                          *)
(***************************************************************************)
\* String.prototype.startsWith
StartsWith(word, prefix) ==
    Len(prefix) <= Len(word) /\ SubSeq(word, 1, Len(prefix)) = prefix

\* String.prototype.endsWith
EndsWith(word, suffix) ==
    Len(suffix) <= Len(word) /\ SubSeq(word, Len(word) - Len(suffix) + 1, Len(word)) = suffix

\* word.slice(i, i + 2) for an array index i < word.length
SliceTwo(word, i) == SubSeq(word, i + 1, Min(i + 2, Len(word)))

\* patterns: 스마트 + 폰, 워치, 키, 밴드, 카드; 블루투스 + 이어폰, 스피커,
\* 키보드, 마우스; 무선 + 이어폰, 마우스, 키보드; 디지털 + 카메라, 시계
patterns ==
    <<[prefix |-> <<49828, 47560, 53944>>,
       suffix |-> << <<54256>>, <<50892, 52824>>, <<53412>>, <<48180, 46300>>,
                     <<52852, 46300>> >>],
      [prefix |-> <<48660, 47336, 53804, 49828>>,
       suffix |-> << <<51060, 50612, 54256>>, <<49828, 54588, 52964>>,
                     <<53412, 48372, 46300>>, <<47560, 50864, 49828>> >>],
      [prefix |-> <<47924, 49440>>,
       suffix |-> << <<51060, 50612, 54256>>, <<47560, 50864, 49828>>,
                     <<53412, 48372, 46300>> >>],
      [prefix |-> <<46356, 51648, 53560>>,
       suffix |-> << <<52852, 47700, 46972>>, <<49884, 44228>> >>]>>

RECURSIVE MatchSuffix(_, _, _)
\* for (const suffix of pattern.suffix): the first [prefix, suffix] equal to
\* the word when joined, or the empty array when the loop ends without one
MatchSuffix(word, pattern, k) ==
    IF k > Len(pattern.suffix) THEN <<>>
    ELSE IF word = pattern.prefix \o pattern.suffix[k]
    THEN <<pattern.prefix, pattern.suffix[k]>>
    ELSE MatchSuffix(word, pattern, k + 1)

RECURSIVE MatchPattern(_, _)
\* for (const pattern of patterns)
MatchPattern(word, p) ==
    IF p > Len(patterns) THEN <<>>
    ELSE LET found == IF StartsWith(word, patterns[p].prefix)
                      THEN MatchSuffix(word, patterns[p], 1)
                      ELSE <<>>
         IN IF found # <<>> THEN found ELSE MatchPattern(word, p + 1)

RECURSIVE ChunksFrom(_, _)
\* for (let i = 0; i < word.length; i += 2) parts.push(word.slice(i, i + 2))
ChunksFrom(word, i) ==
    IF i >= Len(word) THEN <<>>
    ELSE <<SliceTwo(word, i)>> \o ChunksFrom(word, i + 2)

RECURSIVE ChunksShortFrom(_, _)
\* The chunk loop stopping at word.length - 1.
ChunksShortFrom(word, i) ==
    IF i >= Len(word) - 1 THEN <<>>
    ELSE <<SliceTwo(word, i)>> \o ChunksShortFrom(word, i + 2)

\* The splitter with the chunk loop stopping at word.length - 1.
decomposeCompoundWordShortChunks(word) ==
    IF Len(word) < 2 THEN <<word>>
    ELSE IF MatchPattern(word, 1) # <<>> THEN MatchPattern(word, 1)
    ELSE IF Len(word) >= 4 THEN ChunksShortFrom(word, 0)
    ELSE <<word>>

\* The splitter with the length rule tried before the pattern table.
decomposeCompoundWordChunksFirst(word) ==
    IF Len(word) < 2 THEN <<word>>
    ELSE IF Len(word) >= 4 THEN ChunksFrom(word, 0)
    ELSE IF MatchPattern(word, 1) # <<>> THEN MatchPattern(word, 1)
    ELSE <<word>>

decomposeCompoundWord(word) ==
    IF Len(word) < 2 THEN <<word>>
    ELSE IF MatchPattern(word, 1) # <<>> THEN MatchPattern(word, 1)
    ELSE IF Len(word) >= 4 THEN ChunksFrom(word, 0)
    ELSE <<word>>

(***************************************************************************)
(* Word similarity: wordSimilarity, in thousandths.                        *)
(***************************************************************************)
\* The body of the inner forEach: what the pair of parts offers to
\* maxSimilarity.
PartSimilarity(part1, part2) ==
    IF part1 = part2 THEN 900
    ELSE IF Includes(part1, part2) \/ Includes(part2, part1) THEN 700
    ELSE LET jamo1 == decomposeHangul(part1)
             jamo2 == decomposeHangul(part2)
             minLength == Min(Len(jamo1), Len(jamo2))
             matchCount == Cardinality({i \in 1..minLength : jamo1[i] = jamo2[i]})
             maxLength == Max(Len(jamo1), Len(jamo2))
         IN \* parts that differ have a code unit, and so a jamo, between them
            IF maxLength = 0 THEN 0 ELSE TruncDiv(matchCount * 500, maxLength)

RECURSIVE MaxSimilarityFrom(_, _, _, _)
\* decomposed1.forEach(part1 => decomposed2.forEach(part2 => ...)) from the
\* k-th pair on, with the maxSimilarity reached so far
MaxSimilarityFrom(decomposed1, decomposed2, k, maxSimilarity) ==
    IF k >= Len(decomposed1) * Len(decomposed2) THEN maxSimilarity
    ELSE MaxSimilarityFrom(decomposed1, decomposed2, k + 1,
             Max(maxSimilarity,
                 PartSimilarity(decomposed1[(k \div Len(decomposed2)) + 1],
                                decomposed2[(k % Len(decomposed2)) + 1])))

\* wordSimilarity without its first line.
wordSimilarityWithoutExactMatch(word1, word2) ==
    MaxSimilarityFrom(decomposeCompoundWord(word1), decomposeCompoundWord(word2), 0, 0)

wordSimilarity(word1, word2) ==
    IF word1 = word2 THEN 1000
    ELSE MaxSimilarityFrom(decomposeCompoundWord(word1), decomposeCompoundWord(word2), 0, 0)

(***************************************************************************)
(* Indexing word processor: processKoreanWord, with the two calls it makes *)
(* into the hangul-js library.  Letters are Hangul compatibility jamo, as  *)
(* the library produces them; the tokens it is applied to consist of       *)
(* complete syllables and non-Hangul characters.                           *)
(***************************************************************************)
\* The initial consonants in the order of their index in a syllable.
CHO ==
    <<12593, 12594, 12596, 12599, 12600, 12601, 12609, 12610, 12611, 12613,
      12614, 12615, 12616, 12617, 12618, 12619, 12620, 12621, 12622>>

\* The final consonants in the order of their index (1..27) in a syllable.
JONG ==
    <<12593, 12594, 12595, 12596, 12597, 12598, 12599, 12601, 12602, 12603,
      12604, 12605, 12606, 12607, 12608, 12609, 12610, 12612, 12613, 12614,
      12615, 12616, 12618, 12619, 12620, 12621, 12622>>

\* The vowels are contiguous: index 0 is 12623, index 20 is 12643.
JungFirst == 12623
JungLast == 12643

\* <<cluster, first, second>> for the final consonant clusters
COMPLEX_CONSONANTS ==
    {<<12595, 12593, 12613>>, <<12597, 12596, 12616>>, <<12598, 12596, 12622>>,
     <<12602, 12601, 12593>>, <<12603, 12601, 12609>>, <<12604, 12601, 12610>>,
     <<12605, 12601, 12613>>, <<12606, 12601, 12620>>, <<12607, 12601, 12621>>,
     <<12608, 12601, 12622>>, <<12612, 12610, 12613>>}

\* <<compound, first, second>> for the compound vowels
COMPLEX_VOWELS ==
    {<<12632, 12631, 12623>>, <<12633, 12631, 12624>>, <<12634, 12631, 12643>>,
     <<12637, 12636, 12627>>, <<12638, 12636, 12628>>, <<12639, 12636, 12643>>,
     <<12642, 12641, 12643>>}

\* Position of x in seq, 0 when absent.
IndexOf(seq, x) ==
    IF \E i \in 1..Len(seq) : seq[i] = x
    THEN CHOOSE i \in 1..Len(seq) : seq[i] = x
    ELSE 0

isCho(c) == IndexOf(CHO, c) > 0
isJung(c) == c >= JungFirst /\ c <= JungLast
isJong(c) == IndexOf(JONG, c) > 0

\* The letters a compound letter is made of, or the letter itself.
Split(c) ==
    IF \E t \in COMPLEX_CONSONANTS \cup COMPLEX_VOWELS : t[1] = c
    THEN LET t == CHOOSE t \in COMPLEX_CONSONANTS \cup COMPLEX_VOWELS : t[1] = c
         IN <<t[2], t[3]>>
    ELSE <<c>>

\* The compound letter made of a and b, 0 when there is none.
Join(a, b) ==
    IF \E t \in COMPLEX_CONSONANTS \cup COMPLEX_VOWELS : t[2] = a /\ t[3] = b
    THEN (CHOOSE t \in COMPLEX_CONSONANTS \cup COMPLEX_VOWELS : t[2] = a /\ t[3] = b)[1]
    ELSE 0

\* Hangul.disassemble of one character
DisassembleChar(char) ==
    IF char >= SyllableFirst /\ char <= SyllableLast
    THEN LET syllable == char - SyllableFirst
             cho == (syllable \div 28) \div 21
             jung == (syllable \div 28) % 21
             jong == syllable % 28
         IN <<CHO[cho + 1]>> \o Split(JungFirst + jung)
            \o (IF jong > 0 THEN Split(JONG[jong]) ELSE <<>>)
    ELSE Split(char)

RECURSIVE HangulDisassemble(_)
\* Hangul.disassemble(word)
HangulDisassemble(word) ==
    IF word = <<>> THEN <<>>
    ELSE DisassembleChar(Head(word)) \o HangulDisassemble(Tail(word))

\* The characters of the syllable under construction: a lone consonant, or
\* the syllable made of initial, vowel and final.
MakeHangul(cho, jung, jong) ==
    IF cho = 0 THEN <<>>
    ELSE IF jung = 0 THEN <<cho>>
    ELSE <<SyllableFirst
           + ((((IndexOf(CHO, cho) - 1) * 21) + (jung - JungFirst)) * 28)
           + IndexOf(JONG, jong)>>

\* One step of Hangul.assemble: st is the text completed so far and the
\* syllable under construction, c the next letter.
AssembleStep(st, c) ==
    LET done == st.out \o MakeHangul(st.cho, st.jung, st.jong)
    IN IF isJung(c)
       THEN IF st.cho = 0 THEN [st EXCEPT !.out = st.out \o <<c>>]
            ELSE IF st.jung = 0 THEN [st EXCEPT !.jung = c]
            ELSE IF st.jong = 0
            THEN IF Join(st.jung, c) # 0 THEN [st EXCEPT !.jung = Join(st.jung, c)]
                 ELSE [out |-> done \o <<c>>, cho |-> 0, jung |-> 0, jong |-> 0]
            ELSE IF Len(Split(st.jong)) = 2
            THEN [out |-> st.out \o MakeHangul(st.cho, st.jung, Split(st.jong)[1]),
                  cho |-> Split(st.jong)[2], jung |-> c, jong |-> 0]
            ELSE [out |-> st.out \o MakeHangul(st.cho, st.jung, 0),
                  cho |-> st.jong, jung |-> c, jong |-> 0]
       ELSE IF isCho(c)
       THEN IF st.cho = 0 THEN [st EXCEPT !.cho = c]
            ELSE IF st.jung = 0 THEN [out |-> done, cho |-> c, jung |-> 0, jong |-> 0]
            ELSE IF st.jong = 0
            THEN IF isJong(c) THEN [st EXCEPT !.jong = c]
                 ELSE [out |-> done, cho |-> c, jung |-> 0, jong |-> 0]
            ELSE IF Join(st.jong, c) # 0 THEN [st EXCEPT !.jong = Join(st.jong, c)]
            ELSE [out |-> done, cho |-> c, jung |-> 0, jong |-> 0]
       ELSE [out |-> done \o <<c>>, cho |-> 0, jung |-> 0, jong |-> 0]

RECURSIVE AssembleFrom(_, _, _)
AssembleFrom(array, i, st) ==
    IF i > Len(array) THEN st.out \o MakeHangul(st.cho, st.jung, st.jong)
    ELSE AssembleFrom(array, i + 1, AssembleStep(st, array[i]))

\* Hangul.assemble(array)
HangulAssemble(array) ==
    AssembleFrom(array, 1, [out |-> <<>>, cho |-> 0, jung |-> 0, jong |-> 0])

\* combinations.push(Hangul.assemble(decomposed.slice(0, i + 1))) for i > 0
AssembledPrefixes(decomposed) ==
    [k \in 1..Max(Len(decomposed) - 1, 0) |->
        HangulAssemble(SubSeq(decomposed, 1, k + 1))]

\* 스마트: 폰, 워치, 밴드, 태그; 디지털: 가전, 기기, 카메라; 블루투스: 이어폰,
\* 스피커, 키보드; 무선: 이어폰, 마우스, 키보드
indexPatterns ==
    <<[prefix |-> <<49828, 47560, 53944>>,
       suffixes |-> << <<54256>>, <<50892, 52824>>, <<48180, 46300>>,
                       <<53468, 44536>> >>],
      [prefix |-> <<46356, 51648, 53560>>,
       suffixes |-> << <<44032, 51204>>, <<44592, 44592>>,
                       <<52852, 47700, 46972>> >>],
      [prefix |-> <<48660, 47336, 53804, 49828>>,
       suffixes |-> << <<51060, 50612, 54256>>, <<49828, 54588, 52964>>,
                       <<53412, 48372, 46300>> >>],
      [prefix |-> <<47924, 49440>>,
       suffixes |-> << <<51060, 50612, 54256>>, <<47560, 50864, 49828>>,
                       <<53412, 48372, 46300>> >>]>>

RECURSIVE PushSuffixes(_, _, _)
\* for (const suffix of suffixes) if (word.endsWith(suffix)) push(suffix)
PushSuffixes(word, suffixes, k) ==
    IF k > Len(suffixes) THEN <<>>
    ELSE (IF EndsWith(word, suffixes[k]) THEN <<suffixes[k]>> ELSE <<>>)
         \o PushSuffixes(word, suffixes, k + 1)

RECURSIVE PushPatterns(_, _)
\* for (const [prefix, suffixes] of Object.entries(patterns))
PushPatterns(word, p) ==
    IF p > Len(indexPatterns) THEN <<>>
    ELSE (IF StartsWith(word, indexPatterns[p].prefix)
          THEN <<indexPatterns[p].prefix>>
               \o PushSuffixes(word, indexPatterns[p].suffixes, 1)
          ELSE <<>>)
         \o PushPatterns(word, p + 1)

RECURSIVE Unique(_)
\* [...new Set(combinations)]: the first occurrence of each element, in order
Unique(seq) ==
    IF seq = <<>> THEN <<>>
    ELSE LET init == Unique(SubSeq(seq, 1, Len(seq) - 1))
             last == seq[Len(seq)]
         IN IF \E i \in 1..Len(init) : init[i] = last THEN init
            ELSE Append(init, last)

\* The word processor without the push of the original word.
processKoreanWordWithoutWord(word) ==
    Unique(AssembledPrefixes(HangulDisassemble(word))
           \o (IF Len(word) >= 4
               THEN ChunksShortFrom(word, 0) \o PushPatterns(word, 1)
               ELSE <<>>))

processKoreanWord(word) ==
    Unique(AssembledPrefixes(HangulDisassemble(word))
           \o <<word>>
           \o (IF Len(word) >= 4
               THEN ChunksShortFrom(word, 0) \o PushPatterns(word, 1)
               ELSE <<>>))

(***************************************************************************)
(* Lexical Path Scorer.                                                    *)
(***************************************************************************)
RECURSIVE ScanPathWords(_, _, _, _)
\* The loop over the words of one path part: `break' on an exact match,
\* `continue' after a containment match.
ScanPathWords(queryWord, pathWords, k, st) ==
    IF k > Len(pathWords) THEN st
    ELSE LET pathWord == pathWords[k]
             similarity == CharOverlap(queryWord, pathWord)
         IN IF pathWord = queryWord
            THEN [st EXCEPT !.wordMaxSimilarity = 1000,
                            !.exactMatchCount = @ + 1]
            ELSE IF Includes(pathWord, queryWord) \/ Includes(queryWord, pathWord)
            THEN ScanPathWords(queryWord, pathWords, k + 1,
                     [st EXCEPT !.wordMaxSimilarity = Max(@, 800),
                                !.partialMatchCount = @ + 1])
            ELSE IF Exceeds(similarity, 500)
            THEN ScanPathWords(queryWord, pathWords, k + 1,
                     [st EXCEPT !.wordMaxSimilarity = Max(@, similarity.v),
                                !.partialMatchCount = @ + 1])
            ELSE ScanPathWords(queryWord, pathWords, k + 1, st)

RECURSIVE ScanPathParts(_, _, _, _)
ScanPathParts(queryWord, pathParts, j, st) ==
    IF j > Len(pathParts) THEN st
    ELSE ScanPathParts(queryWord, pathParts, j + 1,
             ScanPathWords(queryWord, SplitWs(pathParts[j]), 1, st))

RECURSIVE ScanQueryWords(_, _, _, _)
ScanQueryWords(queryWords, pathParts, i, acc) ==
    IF i > Len(queryWords) THEN acc
    ELSE LET st == ScanPathParts(queryWords[i], pathParts, 1,
                       [wordMaxSimilarity |-> 0,
                        exactMatchCount |-> acc.exactMatchCount,
                        partialMatchCount |-> acc.partialMatchCount])
         IN ScanQueryWords(queryWords, pathParts, i + 1,
                [maxSimilarity |-> acc.maxSimilarity + st.wordMaxSimilarity,
                 exactMatchCount |-> st.exactMatchCount,
                 partialMatchCount |-> st.partialMatchCount,
                 wordScores |-> Append(acc.wordScores, st.wordMaxSimilarity)])

\* The three accumulators of calculatePathSimilarity after its loops, and
\* the best score of every query word.
PathMatch(query, categoryPath) ==
    ScanQueryWords(SplitWs(toLowerCase(query)), SplitPath(toLowerCase(categoryPath)), 1,
        [maxSimilarity |-> 0, exactMatchCount |-> 0, partialMatchCount |-> 0,
         wordScores |-> <<>>])

\* (exactMatchCount * 0.2 + partialMatchCount * 0.1) / queryWords.length
MatchBonus(query, categoryPath) ==
    LET m == PathMatch(query, categoryPath)
    IN (m.exactMatchCount * 200 + m.partialMatchCount * 100)
           \div Len(SplitWs(toLowerCase(query)))

\* The final similarity without the match bonus.
FinalSimilarityNoBonus(query, categoryPath) ==
    LET m == PathMatch(query, categoryPath)
        n == Len(SplitWs(toLowerCase(query)))
    IN (m.maxSimilarity \div n) \div 2

\* (maxSimilarity / queryWords.length + matchBonus) / 2
FinalSimilarity(query, categoryPath) ==
    LET m == PathMatch(query, categoryPath)
        n == Len(SplitWs(toLowerCase(query)))
    IN ((m.maxSimilarity \div n) + MatchBonus(query, categoryPath)) \div 2

\* The scorer without Math.min(finalSimilarity, 1).
calculatePathSimilarityUncapped(query, categoryPath) == FinalSimilarity(query, categoryPath)

calculatePathSimilarity(query, categoryPath) ==
    Min(FinalSimilarity(query, categoryPath), 1000)

(***************************************************************************)
(* The relevance flags of the ranker's filter and of its sort comparator.  *)
(***************************************************************************)
\* The pairs <<word, pathWord>> visited by
\* queryWords.some(word => pathParts.some(part => part.split(/\s+/).some(pathWord => ...)))
WordPairs(query, categoryPath) ==
    LET queryWords == SplitWs(toLowerCase(query))
        pathParts == SplitPath(toLowerCase(categoryPath))
    IN UNION {UNION {{<<queryWords[i], SplitWs(pathParts[j])[k]>> :
                         k \in 1..Len(SplitWs(pathParts[j]))} :
                     j \in 1..Len(pathParts)} :
              i \in 1..Len(queryWords)}

hasExactMatch(query, categoryPath) ==
    \E pair \in WordPairs(query, categoryPath) : pair[2] = pair[1]

hasInclusion(query, categoryPath) ==
    \E pair \in WordPairs(query, categoryPath) :
        Includes(pair[2], pair[1]) \/ Includes(pair[1], pair[2])

hasPartialMatch(query, categoryPath) ==
    \E pair \in WordPairs(query, categoryPath) :
        Exceeds(CharOverlap(pair[1], pair[2]), 600)


(***************************************************************************)
(* Pseudo-embedding of the query and cosine similarity.                    *)
(***************************************************************************)
EmbeddingDim == 100

\* Array index i is element i + 1 of a vector; concatenating the empty
\* sequence makes a vector an explicit tuple.

\* vec1.reduce((sum, val, i) => sum + val * vec2[i], 0), in units of 1e-8
Dot(vec1, vec2) ==
    SumSeq([i \in 1..EmbeddingDim |-> vec1[i] * vec2[i]] \o <<>>)

\* Array.from(word).reduce((hash, char) => hash + char.charCodeAt(0), 0):
\* Array.from iterates code points, charCodeAt(0) is the first code unit of each.
wordHash(word) ==
    SumSeq([i \in 1..Len(word) |->
              IF i > 1 /\ word[i] \in 56320..57343 /\ word[i - 1] \in 55296..56319
              THEN 0 ELSE word[i]])

\* Math.sin(wordHash * 0.3) in thousandths: the angle is reduced modulo
\* 2*pi with pi = 355/113 and the half wave is Bhaskara's approximation
\* 16t(pi-t) / (5pi^2 - 4t(pi-t)).
SinMilli(h) ==
    LET r == (339 * h) % 7100
        t == IF r >= 3550 THEN r - 3550 ELSE r
        u == t * (3550 - t)
        v == (16 * u) \div ((63012500 - 4 * u) \div 1000)
    IN IF r >= 3550 THEN -v ELSE v

\* Math.sin(wordHash * 0.3) * 0.3, in ten-thousandths
Contribution(h) == SinMilli(h) * 3

\* how many of the five positions (wordHash * (i + 1)) % 100 are p
Hits(h, p) == Cardinality({i \in 0..4 : (h * (i + 1)) % EmbeddingDim = p})

\* The query embedding before normalisation.
RawEmbedding(text) ==
    LET queryWords == SplitWs(toLowerCase(text))
        hashes == [k \in 1..Len(queryWords) |-> wordHash(queryWords[k])] \o <<>>
        at(p) == SumSeq([k \in 1..Len(hashes) |->
                           Contribution(hashes[k]) * Hits(hashes[k], p)])
    IN [i \in 1..EmbeddingDim |-> at(i - 1)] \o <<>>

\* The embedding left as accumulated.
NormaliseOmitted(raw) == raw

\* queryEmbedding[i] = val / (magnitude || 1)
Normalise(raw) ==
    LET magnitude == Sqrt(Dot(raw, raw))
        divisor == IF magnitude = 0 THEN 10000 ELSE magnitude
    IN [i \in 1..EmbeddingDim |-> TruncDiv(raw[i] * 10000, divisor)] \o <<>>

queryEmbeddingOf(text) == Normalise(RawEmbedding(text))

\* dotProduct / (magnitude1 * magnitude2): 0/0 is NaN.  A vector with a zero
\* norm has a zero dot product with every vector, so a zero denominator is
\* always 0/0.
cosineSimilarity(vec1, vec2) ==
    LET dotProduct == Dot(vec1, vec2)
        magnitude1 == Sqrt(Dot(vec1, vec1))
        magnitude2 == Sqrt(Dot(vec2, vec2))
    IN IF magnitude1 * magnitude2 = 0 THEN NaN
       ELSE Num(TruncDiv(TruncDiv(dotProduct, 100) * 1000,
                         Max(1, (magnitude1 * magnitude2) \div 100)))


(***************************************************************************)
(* Indexing embedding: generateCategoryEmbedding of the generator script.  *)
(* Weights are rationals with small denominators; angles are in units of   *)
(* 1/1130 radian, in which 2*pi is 7100 and 0.3 radian is 339.             *)
(***************************************************************************)
\* Math.sin of an angle a >= 0, in thousandths
SinUnits(a) ==
    LET r == a % 7100
        t == IF r >= 3550 THEN r - 3550 ELSE r
        u == t * (3550 - t)
        v == (16 * u) \div ((63012500 - 4 * u) \div 1000)
    IN IF r >= 3550 THEN -v ELSE v

\* Math.cos of an angle a >= 0, in thousandths: sin(a + pi/2)
CosUnits(a) == SinUnits(a + 1775)

\* levelWeights = [1.0, 0.8, 0.6, 0.4], in tenths
levelWeights == <<10, 8, 6, 4>>

\* levelWeights[index] || 0.3, in tenths
LevelWeight(index) == IF index < Len(levelWeights) THEN levelWeights[index + 1] ELSE 3

\* The generator's calculatePathSimilarity(path1, path2): the number of
\* levels at which the two paths have the same segment, and maxLength; the
\* similarity is their quotient.
calculatePathSimilarityByLevel(path1, path2) ==
    LET parts1 == SplitPath(path1)
        parts2 == SplitPath(path2)
    IN [matches |-> Cardinality({i \in 1..Min(Len(parts1), Len(parts2)) :
                                    parts1[i] = parts2[i]}),
        maxLength |-> Max(Len(parts1), Len(parts2))]

\* similarity > 0.5
MoreThanHalf(similarity) == 2 * similarity.matches > similarity.maxLength

\* .slice(0, n)
FirstN(list, n) == SubSeq(list, 1, Min(n, Len(list)))

\* The filter that does not leave out the category itself.
findSimilarCategoriesIncludingSelf(category, allCategories) ==
    LET similar(cat) ==
            MoreThanHalf(calculatePathSimilarityByLevel(category.full_category_path,
                                                        cat.full_category_path))
    IN FirstN(SelectSeq(allCategories, similar), 5)

findSimilarCategories(category, allCategories) ==
    LET similar(cat) ==
            /\ MoreThanHalf(calculatePathSimilarityByLevel(category.full_category_path,
                                                           cat.full_category_path))
            /\ cat.cat_id # category.cat_id
    IN FirstN(SelectSeq(allCategories, similar), 5)

\* for (let i = 0; i < count; i++) embedding[(hash * (i + 1)) % 100] += value:
\* how many of the additions go to position p
HitsOf(hash, count, p) ==
    Cardinality({i \in 0..(count - 1) : (hash * (i + 1)) % EmbeddingDim = p})

\* The additions made for one processed word at a level of weight
\* levelWeight: Math.sin(wordHash * wordWeight) * wordWeight at five
\* positions, with wordWeight = levelWeight * (1 + processedWord.length * 0.1).
WordDeposit(processedWord, levelWeight) ==
    LET hash == wordHash(processedWord)
        scale == levelWeight * (10 + Len(processedWord))
    IN [hash |-> hash, count |-> 5,
        value |-> TruncDiv(SinUnits((hash * scale * 113) \div 10) * scale, 10)]

\* words.forEach(word => processKoreanWord(word).forEach(...))
WordDeposits(part, levelWeight) ==
    LET words == SplitWs(part)
    IN Concat([w \in 1..Len(words) |->
                 LET processedWords == processKoreanWord(words[w])
                 IN [k \in 1..Len(processedWords) |->
                        WordDeposit(processedWords[k], levelWeight)]])

\* if (index > 0): Math.cos(parentHash * levelWeight) * levelWeight * 0.5 at
\* three positions
ParentDeposits(pathParts, index) ==
    IF index > 0
    THEN LET parentHash == wordHash(pathParts[index])
             levelWeight == LevelWeight(index)
         IN <<[hash |-> parentHash, count |-> 3,
               value |-> TruncDiv(CosUnits(parentHash * levelWeight * 113) * levelWeight, 2)]>>
    ELSE <<>>

\* Math.sin(fullPathHash * 0.3) * 0.3 at three positions
FullPathDeposit(categoryPath) ==
    [hash |-> wordHash(categoryPath), count |-> 3,
     value |-> Contribution(wordHash(categoryPath))]

\* pathParts.forEach((part, index) => ...), index being the array index
PartDeposits(categoryPath) ==
    LET pathParts == SplitPath(categoryPath)
    IN Concat([k \in 1..Len(pathParts) |->
                 WordDeposits(pathParts[k], LevelWeight(k - 1))
                 \o ParentDeposits(pathParts, k - 1)
                 \o <<FullPathDeposit(categoryPath)>>])

\* similarCategories.forEach((similarCat, index) => ...): weight =
\* similarity * 0.3 / (index + 1), Math.sin(similarHash * weight) * weight at
\* three positions
SimilarDeposits(category, similarCategories) ==
    [k \in 1..Len(similarCategories) |->
        LET similarity == calculatePathSimilarityByLevel(category.full_category_path,
                                                         similarCategories[k].full_category_path)
            similarHash == wordHash(similarCategories[k].full_category_path)
            divisor == similarity.maxLength * k
        IN [hash |-> similarHash, count |-> 3,
            value |-> TruncDiv(SinUnits((similarHash * similarity.matches * 339) \div divisor)
                               * 3 * similarity.matches, divisor)]]

\* The embedding made of the additions, before normalisation.
DepositedEmbedding(deposits) ==
    LET at(p) == SumSeq([k \in 1..Len(deposits) |->
                           deposits[k].value * HitsOf(deposits[k].hash, deposits[k].count, p)])
    IN [i \in 1..EmbeddingDim |-> at(i - 1)] \o <<>>

generateCategoryEmbedding(category, allCategories) ==
    Normalise(DepositedEmbedding(
        PartDeposits(category.full_category_path)
        \o SimilarDeposits(category,
                            FirstN(findSimilarCategories(category, allCategories), 3))))

(***************************************************************************)
(* Inputs.                                                                 *)
(***************************************************************************)
AllStrings(alphabet, n) == UNION {[1..k -> alphabet] : k \in 0..n}

\* 'a', 'b' and the space
QueryAlphabet == {97, 98, Space}

\* "탄산수"
QueryTansansu == <<53444, 49328, 49688>>

\* "A", "\u0000", "a b", " a ", "탄산수"
ExtraQueries == {<<65>>, <<0>>, <<97, Space, 98>>, <<Space, 97, Space>>, QueryTansansu}

Queries == AllStrings(QueryAlphabet, MaxQueryLen) \cup ExtraQueries

Texts == AllStrings(QueryAlphabet, MaxQueryLen + 2) \cup ExtraQueries

\* "식품 > 음료 > 탄산수"
PathFoodDrink ==
    JoinPath(<< <<49885, 54408>>, <<51020, 47308>>, <<53444, 49328, 49688>> >>)

\* "도서 > 컴퓨터/IT > 웹프로그래밍"
PathBookWeb ==
    JoinPath(<< <<46020, 49436>>, <<52980, 54504, 53552, 47, 73, 84>>,
                <<50937, 54532, 47196, 44536, 47000, 48141>> >>)

\* "", "a", "b", "A b > ab"
CatalogPaths == {<<>>, <<97>>, <<98>>, JoinPath(<< <<65, Space, 98>>, <<97, 98>> >>)}

ZeroVector == [i \in 1..EmbeddingDim |-> 0] \o <<>>
Negate(vec) == [i \in 1..EmbeddingDim |-> -vec[i]] \o <<>>

\* Stored vectors: the zero vector and unit vectors along and against a query.
StoredVectors == {ZeroVector, queryEmbeddingOf(<<97>>), Negate(queryEmbeddingOf(<<97>>))}

\* A unit vector whose cosine with the embedding of "탄산수" is c thousandths:
\* c times that embedding plus sqrt(1 - c^2) along array index 1, where the
\* embedding is zero.
Tilted(c) ==
    [i \in 1..EmbeddingDim |->
        IF i = 2 THEN Sqrt(100000000 - 100 * c * c)
        ELSE TruncDiv(queryEmbeddingOf(QueryTansansu)[i] * c, 1000)] \o <<>>

\* Unit vectors along, against, across and at two angles to the query "탄산수".
UnitVectors ==
    {queryEmbeddingOf(QueryTansansu), Negate(queryEmbeddingOf(QueryTansansu)),
     queryEmbeddingOf(<<97>>), Tilted(-100), Tilted(-200)}

CatalogOf(paths, vectors) ==
    [i \in 1..Len(paths) |->
       [cat_id |-> i, full_category_path |-> paths[i], embedding |-> vectors[i]]]

RankedPaths == CatalogPaths \cup {PathFoodDrink, PathBookWeb}
RankedVectors == StoredVectors \cup UnitVectors

Catalogs ==
    UNION {{CatalogOf(paths, vectors) :
               paths \in [1..n -> CatalogPaths], vectors \in [1..n -> StoredVectors]} :
           n \in 0..MaxCatalog}
    \cup {CatalogOf(<<PathFoodDrink, PathBookWeb>>, vectors) :
               vectors \in [1..2 -> UnitVectors]}

\* "한", "강", "하", "가", "힣", the code units next to the syllable block, "A"
HangulAlphabet == {54620, 44053, 54616, 44032, 55203, 44031, 55204, 65}

HangulStrings == AllStrings(HangulAlphabet, MaxQueryLen)

\* "스마트폰", "가방", "스마트", "무선마우스", "디지털시계", "스마트워치",
\* "블루투스이어폰", "스마트폰a", "안좋아"
KoreanTokens ==
    {<<49828, 47560, 53944, 54256>>, <<44032, 48169>>, <<49828, 47560, 53944>>,
     <<47924, 49440, 47560, 50864, 49828>>, <<46356, 51648, 53560, 49884, 44228>>,
     <<49828, 47560, 53944, 50892, 52824>>,
     <<48660, 47336, 53804, 49828, 51060, 50612, 54256>>,
     <<49828, 47560, 53944, 54256, 97>>, <<50504, 51339, 50500>>}

\* Tokens without white space: Latin words and the Korean ones.
Tokens == AllStrings({97, 98}, MaxQueryLen + 3) \cup KoreanTokens

RECURSIVE Repeat(_, _)
Repeat(x, n) == IF n = 0 THEN <<>> ELSE <<x>> \o Repeat(x, n - 1)

\* Paths of one to MaxRepeat equal segments, besides the catalog's paths.
ScorerPaths ==
    CatalogPaths \cup {PathFoodDrink, PathBookWeb}
    \cup {JoinPath(Repeat(seg, n)) : seg \in {<<97>>, <<97, 98, Space, 98>>}, n \in 1..MaxRepeat}

(***************************************************************************)
(* Hybrid Ranker: searchSimilarCategories over hardcodedEmbeddings.        *)
(***************************************************************************)
\* The combination with the two weights exchanged.
combinedSimilaritySwapped(embeddingSimilarity, pathSimilarity) ==
    IF embeddingSimilarity.nan THEN NaN
    ELSE Num(60 * embeddingSimilarity.v + 40 * pathSimilarity)

\* (embeddingSimilarity * 0.4 + pathSimilarity * 0.6) * 100
combinedSimilarity(embeddingSimilarity, pathSimilarity) ==
    IF embeddingSimilarity.nan THEN NaN
    ELSE Num(40 * embeddingSimilarity.v + 60 * pathSimilarity)

\* x < threshold for a double x: false when x is NaN
LessThan(x, threshold) == ~x.nan /\ x.v < threshold

\* The similarity the callback of .map computes for one category.
CategorySimilarity(query, categoryPath, embedding) ==
    combinedSimilarity(cosineSimilarity(queryEmbeddingOf(query), embedding),
                       calculatePathSimilarity(query, categoryPath))

\* The values of CategorySimilarity and of the three relevance flags on the
\* model's inputs, each evaluated once.
SimilarityTable ==
    [query \in Queries |-> [categoryPath \in RankedPaths |-> [embedding \in RankedVectors |->
        CategorySimilarity(query, categoryPath, embedding)] @@ <<>>] @@ <<>>] @@ <<>>

RelevanceTable ==
    [query \in Queries |-> [categoryPath \in RankedPaths |->
        [exact |-> hasExactMatch(query, categoryPath),
         inclusion |-> hasInclusion(query, categoryPath),
         partial |-> hasPartialMatch(query, categoryPath)]] @@ <<>>] @@ <<>>

\* cosineSimilarity(queryEmbedding, embedding) on the model's inputs, each
\* evaluated once.
CosineTable ==
    [query \in Queries |-> [embedding \in RankedVectors |->
        cosineSimilarity(queryEmbeddingOf(query), embedding)] @@ <<>>] @@ <<>>

\* (a, b) => b.similarity - a.similarity
BySimilarity(a, b) ==
    IF a.similarity.nan \/ b.similarity.nan THEN NaN
    ELSE Num(b.similarity.v - a.similarity.v)

\* The callback of .map
ScoreCategory(query, category) ==
    [cat_id |-> category.cat_id,
     full_category_path |-> category.full_category_path,
     similarity |-> SimilarityTable[query][category.full_category_path][category.embedding]]

\* The filter with the threshold applied only to entries without a word match.
KeepResultRescued(query, result) ==
    IF RelevanceTable[query][result.full_category_path].exact THEN TRUE
    ELSE IF RelevanceTable[query][result.full_category_path].inclusion THEN TRUE
    ELSE IF RelevanceTable[query][result.full_category_path].partial THEN TRUE
    ELSE ~LessThan(result.similarity, 30000)

\* The callback of .filter
KeepResult(query, result) ==
    IF LessThan(result.similarity, 30000) THEN FALSE
    ELSE IF RelevanceTable[query][result.full_category_path].exact THEN TRUE
    ELSE IF RelevanceTable[query][result.full_category_path].inclusion THEN TRUE
    ELSE RelevanceTable[query][result.full_category_path].partial

\* The callback of .sort; b.similarity - a.similarity is NaN when either is.
Comparator(query, a, b) ==
    LET aExactMatch == RelevanceTable[query][a.full_category_path].exact
        bExactMatch == RelevanceTable[query][b.full_category_path].exact
        aInclusion == RelevanceTable[query][a.full_category_path].inclusion
        bInclusion == RelevanceTable[query][b.full_category_path].inclusion
    IN IF aExactMatch /\ ~bExactMatch THEN Num(-1)
       ELSE IF ~aExactMatch /\ bExactMatch THEN Num(1)
       ELSE IF aInclusion /\ ~bInclusion THEN Num(-1)
       ELSE IF ~aInclusion /\ bInclusion THEN Num(1)
       ELSE BySimilarity(a, b)

\* Array.prototype.sort replaces a NaN returned by the comparator by +0.
SortCompare(v) == IF v.nan THEN 0 ELSE v.v

\* The comparator's results over a list, as Array.prototype.sort uses them.
CompareAll(query, list) ==
    [i \in 1..Len(list) |->
        [j \in 1..Len(list) |-> SortCompare(Comparator(query, list[i], list[j]))]]

\* The results of (a, b) => b.similarity - a.similarity over a list.
CompareAllBySimilarity(list) ==
    [i \in 1..Len(list) |->
        [j \in 1..Len(list) |-> SortCompare(BySimilarity(list[i], list[j]))]]

\* Whether the comparator, of results c, is a consistent comparison function
\* for the list.
ConsistentComparator(c) ==
    LET I == DOMAIN c
    IN /\ \A i \in I : c[i][i] = 0
       /\ \A i, j \in I : (c[i][j] < 0) = (c[j][i] > 0)
       /\ \A i, j, k \in I :
            /\ (c[i][j] = 0 /\ c[j][k] = 0) => c[i][k] = 0
            /\ (c[i][j] < 0 /\ c[j][k] < 0) => c[i][k] < 0
            /\ (c[i][j] < 0 /\ c[j][k] = 0) => c[i][k] < 0
            /\ (c[i][j] = 0 /\ c[j][k] < 0) => c[i][k] < 0

ApplyPerm(list, perm) == [i \in 1..Len(list) |-> list[perm[i]]]

\* Array.prototype.sort with a comparator of results c: stable and ordered
\* by the comparator when it is consistent; an implementation-defined order
\* of the elements otherwise.
SortOutcomes(list, c) ==
    LET perms == Permutations(1..Len(list))
        sortedStable(perm) ==
            \A i, j \in 1..Len(list) :
                i < j => \/ c[perm[i]][perm[j]] < 0
                         \/ c[perm[i]][perm[j]] = 0 /\ perm[i] < perm[j]
    IN IF ConsistentComparator(c)
       THEN {ApplyPerm(list, perm) : perm \in {q \in perms : sortedStable(q)}}
       ELSE {ApplyPerm(list, perm) : perm \in perms}

\* The chain without its truncation.
SliceOmitted(list, limit) == list

\* A truncation that answers an empty list with a placeholder entry.
SliceOrPlaceholder(list, limit) ==
    IF Len(list) = 0
    THEN <<[cat_id |-> 0, full_category_path |-> <<>>, similarity |-> Num(0)]>>
    ELSE SubSeq(list, 1, Min(limit, Len(list)))

\* .slice(0, limit) for limit >= 0
Slice(list, limit) == SubSeq(list, 1, Min(limit, Len(list)))

\* hardcodedEmbeddings.map(...)
ScoredResults(embeddings, query) ==
    [i \in 1..Len(embeddings) |-> ScoreCategory(query, embeddings[i])] \o <<>>

\* .filter(...)
FilteredResults(scored, query) ==
    LET keep(result) == KeepResult(query, result)
    IN SelectSeq(scored, keep)

(***************************************************************************)
(* State: the catalog of hard-coded embeddings and the last call made; for *)
(* the server with a vector store, the storage adapter it is built with,   *)
(* the database, the position of main and the state of the indexing pass.  *)
(***************************************************************************)
VARIABLES hardcodedEmbeddings, call, adapter, db, main, indexer,
          naver, rpc, embeddingPipeline, getEmbeddingCalls

vars == <<hardcodedEmbeddings, call, adapter, db, main, indexer,
          naver, rpc, embeddingPipeline, getEmbeddingCalls>>

\* The Naver API client, the HTTP endpoint and the embedding pipeline.
clientVars == <<naver, rpc, embeddingPipeline, getEmbeddingCalls>>

\* No call of the Naver API, no HTTP request, no pipeline.
NoClient ==
    /\ naver = [phase |-> "idle"]
    /\ rpc = [phase |-> "idle"]
    /\ embeddingPipeline = 0
    /\ getEmbeddingCalls = <<>>

serverVars == <<adapter, db, main, indexer>>

\* No server process: the engine is called as a library.
NoServer ==
    /\ adapter = "sqlite"
    /\ db = [categories |-> <<>>, category_embeddings |-> <<>>, file |-> <<>>]
    /\ main = "stopped"
    /\ indexer = [state |-> "idle", i |-> 0, inflight |-> {}]

Init ==
    /\ hardcodedEmbeddings \in Catalogs
    /\ call = [op |-> "none"]
    /\ NoServer
    /\ NoClient

\* searchSimilarCategories(query, limit)
SearchSimilarCategories ==
    /\ call.op = "none"
    /\ \E query \in Queries :
         LET scored == ScoredResults(hardcodedEmbeddings, query)
             filtered == FilteredResults(scored, query)
         IN \E sorted \in SortOutcomes(filtered, CompareAll(query, filtered)),
               limit \in 1..MaxLimit :
              call' = [op |-> "searchSimilarCategories",
                       query |-> query,
                       limit |-> limit,
                       scored |-> scored,
                       filtered |-> filtered,
                       results |-> Slice(sorted, limit)]
    /\ UNCHANGED <<clientVars, hardcodedEmbeddings, serverVars>>

\* searchCategories(query): the five best cat_ids by embedding similarity alone
SearchCategories ==
    /\ call.op = "none"
    /\ \E query \in Queries :
         IF Len(hardcodedEmbeddings) = 0
         THEN call' = [op |-> "searchCategories", query |-> query, results |-> <<>>]
         ELSE LET scored == [i \in 1..Len(hardcodedEmbeddings) |->
                               [cat_id |-> hardcodedEmbeddings[i].cat_id,
                                similarity |-> CosineTable[query][hardcodedEmbeddings[i].embedding]]]
                            \o <<>>
              IN \E sorted \in SortOutcomes(scored, CompareAllBySimilarity(scored)) :
                   call' = [op |-> "searchCategories",
                            query |-> query,
                            results |-> [i \in 1..Len(Slice(sorted, 5)) |->
                                           Slice(sorted, 5)[i].cat_id]]
    /\ UNCHANGED <<clientVars, hardcodedEmbeddings, serverVars>>

\* Number.prototype.toFixed(2) of a value in thousandths: the hundredths
\* nearest to it, ties away from zero; "NaN" for NaN.
toFixed2(x) ==
    IF x.nan THEN NaN
    ELSE IF x.v < 0 THEN Num(0 - ((Abs(x.v) + 5) \div 10))
    ELSE Num((x.v + 5) \div 10)

\* The percentage shown with the value taken as it is.
ShownAsStored(similarity) == toFixed2(similarity)

\* (r.similarity * 100).toFixed(2) followed by "%"
ShownTimesHundred(similarity) ==
    toFixed2(IF similarity.nan THEN NaN ELSE Num(similarity.v * 100))

\* createMcpResponse({title, query, results}): the text made of the results
\* of the search that has just been answered.
CreateMcpResponse ==
    /\ call.op = "searchSimilarCategories"
    /\ call' = [op |-> "createMcpResponse",
                query |-> call.query,
                results |-> call.results,
                shown |-> [i \in 1..Len(call.results) |->
                              ShownTimesHundred(call.results[i].similarity)] \o <<>>]
    /\ UNCHANGED <<clientVars, hardcodedEmbeddings, serverVars>>

\* The category search test: results.forEach(... result.similarity.toFixed(2)%)
PrintTestResults ==
    /\ call.op = "searchSimilarCategories"
    /\ call' = [op |-> "printTestResults",
                query |-> call.query,
                results |-> call.results,
                shown |-> [i \in 1..Len(call.results) |->
                              ShownAsStored(call.results[i].similarity)] \o <<>>]
    /\ UNCHANGED <<clientVars, hardcodedEmbeddings, serverVars>>

\* The call returns to its caller.
Return ==
    /\ call.op # "none"
    /\ call' = [op |-> "none"]
    /\ UNCHANGED <<clientVars, hardcodedEmbeddings, serverVars>>

Next ==
    \/ SearchSimilarCategories
    \/ SearchCategories
    \/ CreateMcpResponse
    \/ PrintTestResults
    \/ Return

\* Searches served one at a time over a catalog fixed at start-up.
Spec == Init /\ [][Next]_vars

InitPure ==
    /\ hardcodedEmbeddings = <<>>
    /\ call = [op |-> "none"]
    /\ NoServer
    /\ NoClient

\* calculatePathSimilarity(query, categoryPath)
CalculatePathSimilarity ==
    /\ call.op = "none"
    /\ \E query \in Queries, categoryPath \in ScorerPaths :
         call' = [op |-> "calculatePathSimilarity",
                  query |-> query,
                  categoryPath |-> categoryPath,
                  match |-> PathMatch(query, categoryPath),
                  matchBonus |-> MatchBonus(query, categoryPath),
                  value |-> calculatePathSimilarity(query, categoryPath)]
    /\ UNCHANGED <<clientVars, hardcodedEmbeddings, serverVars>>

\* The query embedding computed at the head of searchSimilarCategories.
EmbedQuery ==
    /\ call.op = "none"
    /\ \E text \in Texts :
         call' = [op |-> "queryEmbedding",
                  query |-> text,
                  embedding |-> queryEmbeddingOf(text)]
    /\ UNCHANGED <<clientVars, hardcodedEmbeddings, serverVars>>

\* decomposeHangul(str)
DecomposeHangul ==
    /\ call.op = "none"
    /\ \E str \in HangulStrings :
         call' = [op |-> "decomposeHangul", str |-> str, result |-> decomposeHangul(str)]
    /\ UNCHANGED <<clientVars, hardcodedEmbeddings, serverVars>>

\* decomposeCompoundWord(word)
DecomposeCompoundWord ==
    /\ call.op = "none"
    /\ \E word \in Tokens :
         call' = [op |-> "decomposeCompoundWord", word |-> word,
                  result |-> decomposeCompoundWord(word)]
    /\ UNCHANGED <<clientVars, hardcodedEmbeddings, serverVars>>

\* processKoreanWord(word)
ProcessKoreanWord ==
    /\ call.op = "none"
    /\ \E word \in Tokens :
         call' = [op |-> "processKoreanWord", word |-> word,
                  result |-> processKoreanWord(word)]
    /\ UNCHANGED <<clientVars, hardcodedEmbeddings, serverVars>>

\* Words to compare: the Korean tokens and short strings of syllables.
SimilarityWords == KoreanTokens \cup HangulStrings

\* wordSimilarity(word1, word2)
WordSimilarity ==
    /\ call.op = "none"
    /\ \E word1 \in SimilarityWords :
         \E word2 \in KoreanTokens \cup AllStrings(HangulAlphabet, 1) \cup {word1} :
            call' = [op |-> "wordSimilarity", word1 |-> word1, word2 |-> word2,
                     value |-> wordSimilarity(word1, word2)]
    /\ UNCHANGED <<clientVars, hardcodedEmbeddings, serverVars>>

NextPure ==
    \/ CalculatePathSimilarity
    \/ WordSimilarity
    \/ EmbedQuery
    \/ DecomposeHangul
    \/ DecomposeCompoundWord
    \/ ProcessKoreanWord
    \/ Return

\* The pure functions of the engine applied to inputs of their own.
SpecPure == InitPure /\ [][NextPure]_vars

(***************************************************************************)
(* The server with a vector store: main, the catalog loader, the indexing  *)
(* pass generateAllCategoryEmbeddings and the search over the store, for   *)
(* the two storage adapters the service was written for (a lowdb JSON file *)
(* and a sqlite database).  The pipeline that embeds a text is an external *)
(* model: a fixed function from texts to unit vectors.                     *)
(***************************************************************************)
\* Records of the catalog.
MaxRecords == 4

\* batchSize: 10 in the source, scaled to the catalogs explored.
BatchSize == 2

\* Rows of the store: the server is started while the store has room for a
\* whole pass, so that each record can come to have two rows.
MaxStored == 2 * MaxRecords

\* limit: number = 5
DefaultLimit == 5

\* Full category paths of the server, "a" and "b", and its query, "ab"
ServerPaths == {<<97>>, <<98>>}
ServerQueries == {<<97, 98>>}

\* getEmbedding(text): the pipeline's unit vector for the text.
getEmbedding(text) == Tilted(((((wordHash(text) * 7) % 21)) * 100) - 1000)

PipelineTable == [text \in ServerPaths \cup ServerQueries |-> getEmbedding(text)] @@ <<>>

\* cosineSimilarity(queryEmbedding, category.embedding) over the pipeline's vectors
StoreCosineTable ==
    [query \in ServerQueries |->
        [vec \in {PipelineTable[text] : text \in ServerPaths} |->
            cosineSimilarity(PipelineTable[query], vec)] @@ <<>>] @@ <<>>

\* The catalogs the loader may install: MaxRecords records with distinct ids,
\* which differ in the path of the first record.
ServerCatalogs ==
    {[i \in 1..MaxRecords |->
        [cat_id |-> i, full_category_path |-> IF i = 1 THEN path ELSE <<98>>]] :
     path \in ServerPaths}

\* The row written for a category by the indexing pass; its time stamp
\* created_at, which nothing reads, is left out.
VectorRow(category) ==
    [cat_id |-> category.cat_id,
     embedding |-> PipelineTable[category.full_category_path]]

\* INSERT OR REPLACE INTO category_embeddings: cat_id is the primary key.
\* The table is a set of rows, kept here in the order of the key.
InsertOrReplace(rows, row) ==
    LET before(r) == r.cat_id < row.cat_id
        after(r) == r.cat_id > row.cat_id
    IN SelectSeq(rows, before) \o <<row>> \o SelectSeq(rows, after)

\* A write that keeps nothing but the row written.
StoreWriteKeepingOnlyRow(kind, database, row) ==
    [database EXCEPT !.category_embeddings = <<row>>, !.file = <<row>>]

\* The write of one row: db.get('category_embeddings').push(row).write() on
\* lowdb, which appends in memory and saves the whole state to the file; the
\* INSERT OR REPLACE statement on sqlite.
StoreWrite(kind, database, row) ==
    IF kind = "lowdb"
    THEN [database EXCEPT !.category_embeddings = Append(@, row),
                          !.file = Append(database.category_embeddings, row)]
    ELSE [database EXCEPT !.category_embeddings = InsertOrReplace(@, row),
                          !.file = InsertOrReplace(database.category_embeddings, row)]

\* The write of one row when saving throws: lowdb has pushed the row in
\* memory before its adapter fails to save; the sqlite statement inserts
\* nothing.
StoreWriteFailing(kind, database, row) ==
    IF kind = "lowdb"
    THEN [database EXCEPT !.category_embeddings = Append(@, row)]
    ELSE database

\* embeddings.find(e => e.cat_id === category.cat_id.toString()): the first
\* row of the id, or undefined (here the empty sequence)
FindFirst(rows, cat_id) ==
    LET same(r) == r.cat_id = cat_id
    IN IF SelectSeq(rows, same) = <<>> THEN <<>> ELSE <<Head(SelectSeq(rows, same))>>

RECURSIVE JoinLowdb(_, _)
\* categories.map(... find ...).filter(category => category.embedding.length > 0)
JoinLowdb(categories, rows) ==
    IF categories = <<>> THEN <<>>
    ELSE LET category == Head(categories)
             found == FindFirst(rows, category.cat_id)
         IN (IF found = <<>> THEN <<>>
             ELSE <<[cat_id |-> category.cat_id,
                     full_category_path |-> category.full_category_path,
                     embedding |-> found[1].embedding]>>)
            \o JoinLowdb(Tail(categories), rows)

RECURSIVE JoinSqlite(_, _)
\* SELECT c.*, ce.embedding FROM categories c JOIN category_embeddings ce
\* ON c.cat_id = ce.cat_id, in the order of the categories
JoinSqlite(categories, rows) ==
    IF categories = <<>> THEN <<>>
    ELSE LET category == Head(categories)
             same(r) == r.cat_id = category.cat_id
             matching == SelectSeq(rows, same)
         IN [k \in 1..Len(matching) |->
                [cat_id |-> category.cat_id,
                 full_category_path |-> category.full_category_path,
                 embedding |-> matching[k].embedding]]
            \o JoinSqlite(Tail(categories), rows)

\* A join that keeps the records without a row, with the vector of their path.
JoinedRowsKeepingAll(kind, database) ==
    [k \in 1..Len(database.categories) |->
        [cat_id |-> database.categories[k].cat_id,
         full_category_path |-> database.categories[k].full_category_path,
         embedding |-> PipelineTable[database.categories[k].full_category_path]]]

\* The rows the search ranks.
JoinedRows(kind, database) ==
    IF kind = "lowdb"
    THEN JoinLowdb(database.categories, database.category_embeddings)
    ELSE JoinSqlite(database.categories, database.category_embeddings)

\* The callback of .map in the search over the store
ScoreRow(query, row) ==
    [cat_id |-> row.cat_id,
     full_category_path |-> row.full_category_path,
     embedding |-> row.embedding,
     similarity |-> StoreCosineTable[query][row.embedding]]

\* similarity || 0
OrZero(x) == IF x.nan THEN 0 ELSE x.v

\* The results of (a, b) => (b.similarity || 0) - (a.similarity || 0)
CompareAllOrZero(list) ==
    [i \in 1..Len(list) |->
        [j \in 1..Len(list) |-> OrZero(list[j].similarity) - OrZero(list[i].similarity)]]

\* The outcomes of .sort((a, b) => (b.similarity || 0) - (a.similarity || 0))
\* over the scored rows.  The comparator is consistent, so the sort orders
\* by it and keeps rows that compare equal in the order they arrived in: the
\* order of the categories on lowdb; on sqlite any order, the join having no
\* ORDER BY.
StoreSortOutcomes(kind, scored) ==
    LET c == CompareAllOrZero(scored)
    IN IF kind = "lowdb" THEN SortOutcomes(scored, c)
       ELSE {ApplyPerm(scored, perm) :
                perm \in {q \in Permutations(1..Len(scored)) :
                             \A i, j \in 1..Len(scored) : i < j => c[q[i]][q[j]] <= 0}}

InitServer ==
    /\ hardcodedEmbeddings = <<>>
    /\ call = [op |-> "none"]
    /\ adapter \in {"lowdb", "sqlite"}
    /\ db = [categories |-> <<>>, category_embeddings |-> <<>>, file |-> <<>>]
    /\ main = "stopped"
    /\ indexer = [state |-> "idle", i |-> 0, inflight |-> {}]
    /\ NoClient

\* The catalog loader, run while the server is down:
\* db.set('categories', sampleData).write()
LoadCatalog ==
    /\ main = "stopped"
    /\ \E catalog \in ServerCatalogs :
         /\ catalog # db.categories
         /\ db' = [db EXCEPT !.categories = catalog]
    /\ UNCHANGED <<clientVars, hardcodedEmbeddings, call, adapter, main, indexer>>

\* main: const db = await initDatabase() resolves; the store is read from
\* the file.
InitDatabase ==
    /\ main \in {"stopped", "exited"}
    /\ Len(db.file) + Len(db.categories) <= MaxStored
    /\ main' = "initialized"
    /\ db' = [db EXCEPT !.category_embeddings = db.file]
    /\ UNCHANGED <<clientVars, hardcodedEmbeddings, call, adapter, indexer>>

\* main: initDatabase() rejects with the error of the adapter; main's catch
\* logs it and ends the process with exit code 1.
InitDatabaseFails ==
    /\ main = "stopped"
    /\ main' = "exited"
    /\ UNCHANGED <<clientVars, hardcodedEmbeddings, call, adapter, db, indexer>>

\* main: generateAllCategoryEmbeddings().then(...).catch(...), not awaited;
\* the pass runs up to its first await.
StartIndexing ==
    /\ main = "initialized"
    /\ main' = "registering"
    /\ indexer' = [state |-> "running", i |-> 0, inflight |-> {}]
    /\ UNCHANGED <<clientVars, hardcodedEmbeddings, call, adapter, db>>

\* main: the tools are registered and await server.connect(transport) lets
\* requests in; only now does the event loop resume the indexing pass.
Connect ==
    /\ main = "registering"
    /\ main' = "serving"
    /\ UNCHANGED <<clientVars, hardcodedEmbeddings, call, adapter, db, indexer>>

\* One iteration of the for loop: the items of the next batch are started with
\* Promise.all(batch.map(...)); after the last batch the pass resolves.
StartBatch ==
    /\ main = "serving"
    /\ call.op = "none"
    /\ indexer.state = "running"
    /\ indexer.inflight = {}
    /\ indexer' =
         IF indexer.i < Len(db.categories)
         THEN [indexer EXCEPT
                 !.inflight = (indexer.i + 1)..Min(indexer.i + BatchSize, Len(db.categories)),
                 !.i = indexer.i + BatchSize]
         ELSE [indexer EXCEPT !.state = "done"]
    /\ UNCHANGED <<clientVars, hardcodedEmbeddings, call, adapter, db, main>>

\* An item of the batch: its embedding arrives and its row is written.  The
\* items of a batch whose Promise.all has rejected still run to their end.
StoreEmbedding ==
    /\ main = "serving"
    /\ call.op = "none"
    /\ \E k \in indexer.inflight :
         /\ db' = StoreWrite(adapter, db, VectorRow(db.categories[k]))
         /\ indexer' = [indexer EXCEPT !.inflight = @ \ {k}]
    /\ UNCHANGED <<clientVars, hardcodedEmbeddings, call, adapter, main>>

\* An item of the batch: getEmbedding rejects, so Promise.all and the pass
\* reject and no further batch is started.
EmbeddingFails ==
    /\ main = "serving"
    /\ call.op = "none"
    /\ \E k \in indexer.inflight :
         indexer' = [indexer EXCEPT !.inflight = @ \ {k}, !.state = "failed"]
    /\ UNCHANGED <<clientVars, hardcodedEmbeddings, call, adapter, db, main>>

\* An item of the batch: writing its row throws.
WriteFails ==
    /\ main = "serving"
    /\ call.op = "none"
    /\ \E k \in indexer.inflight :
         /\ db' = StoreWriteFailing(adapter, db, VectorRow(db.categories[k]))
         /\ indexer' = [indexer EXCEPT !.inflight = @ \ {k}, !.state = "failed"]
    /\ UNCHANGED <<clientVars, hardcodedEmbeddings, call, adapter, main>>

\* searchSimilarCategories(query, limit) over the store, from the point where
\* the query's embedding has arrived.
SearchStore ==
    /\ main = "serving"
    /\ call.op = "none"
    /\ \E query \in ServerQueries, limit \in {1, DefaultLimit} :
         LET joined == JoinedRows(adapter, db)
             scored == [i \in 1..Len(joined) |-> ScoreRow(query, joined[i])] \o <<>>
         IN \E sorted \in StoreSortOutcomes(adapter, scored) :
              call' = [op |-> "searchStore",
                       query |-> query,
                       limit |-> limit,
                       joined |-> joined,
                       results |-> Slice(sorted, limit)]
    /\ UNCHANGED <<clientVars, hardcodedEmbeddings, serverVars>>

\* The process ends; what was in flight and in memory is gone.
StopServer ==
    /\ main = "serving"
    /\ call.op = "none"
    /\ main' = "stopped"
    /\ indexer' = [indexer EXCEPT !.state = "idle", !.i = 0, !.inflight = {}]
    /\ db' = [db EXCEPT !.category_embeddings = <<>>]
    /\ UNCHANGED <<clientVars, hardcodedEmbeddings, call, adapter>>

NextServer ==
    \/ LoadCatalog
    \/ InitDatabase
    \/ InitDatabaseFails
    \/ StartIndexing
    \/ Connect
    \/ StartBatch
    \/ StoreEmbedding
    \/ EmbeddingFails
    \/ WriteFails
    \/ SearchStore
    \/ StopServer
    \/ Return

SpecServer == InitServer /\ [][NextServer]_vars

(***************************************************************************)
(* The generator script: it reads data/categories.json, computes the       *)
(* indexing embedding of every category and writes hardcodedEmbeddings.    *)
(***************************************************************************)
MaxGenerated == 3

\* The script is run again over a file of at most MaxKept entries.
MaxKept == 1

\* The records of data/categories.json: the second and the last have the
\* same path, the one before the last has no path at all.
CategoryData ==
    LET record(id, major, middle, minor, detailed) ==
            [cat_id |-> id, major_category |-> major, middle_category |-> middle,
             minor_category |-> minor, detailed_category |-> detailed]
    IN {record(1, <<97>>, <<98>>, <<>>, <<>>),
        record(2, <<97>>, <<98>>, <<97, 98>>, <<>>),
        record(4, <<98>>, <<>>, <<>>, <<>>),
        record(5, <<>>, <<>>, <<>>, <<>>),
        record(6, <<97>>, <<98>>, <<>>, <<97, 98>>)}

\* A catalog of five categories that agree with one another at more than
\* half of the levels.
RelatedData ==
    LET record(id, minor) ==
            [cat_id |-> id, major_category |-> <<97>>, middle_category |-> <<98>>,
             minor_category |-> minor, detailed_category |-> <<>>]
    IN <<record(1, <<>>), record(2, <<97, 98>>), record(3, <<98>>),
         record(7, <<97>>), record(8, <<98, 97>>)>>

\* What readFileSync and JSON.parse can meet: a file that cannot be read or
\* parsed, a document without a categories array, a catalog.
CategoryFiles ==
    {[kind |-> "unreadable"], [kind |-> "invalid"]}
    \cup {[kind |-> "data", categories |-> c] :
            c \in {c \in UNION {[1..n -> CategoryData] : n \in 0..MaxGenerated} :
                      \A i, j \in 1..Len(c) : c[i] = c[j] => i = j}
                  \cup {RelatedData}}

\* [major, middle, minor, detailed].filter(Boolean).join(' > ')
FullCategoryPath(category) ==
    JoinPath(SelectSeq(<<category.major_category, category.middle_category,
                         category.minor_category, category.detailed_category>>,
                       LAMBDA level : level # <<>>))

\* loadCategories gives up its error for an empty catalog.
loadCategories(content) ==
    IF content.kind # "data"
    THEN <<>>
    ELSE SelectSeq([k \in 1..Len(content.categories) |->
                      [cat_id |-> content.categories[k].cat_id,
                       full_category_path |-> FullCategoryPath(content.categories[k])]],
                   LAMBDA category : Len(category.full_category_path) > 0)

\* categories.map(category => ({..., embedding: generateCategoryEmbedding(category, categories)}))
EmbeddingsWithCategory(categories) ==
    [k \in 1..Len(categories) |->
        [cat_id |-> categories[k].cat_id,
         full_category_path |-> categories[k].full_category_path,
         embedding |-> generateCategoryEmbedding(categories[k], categories)]] \o <<>>

\* What a run computes from each category file, computed once.
GeneratedTable ==
    [content \in CategoryFiles |-> EmbeddingsWithCategory(loadCategories(content))] @@ <<>>

\* generateEmbeddings(): writeFileSync either writes the file or throws and
\* leaves it; the catch logs the error, and the script ends normally.
GenerateEmbeddings ==
    /\ call.op = "none"
    /\ Len(hardcodedEmbeddings) <= MaxKept
    /\ \E content \in CategoryFiles, written \in BOOLEAN :
         LET categories == loadCategories(content)
         IN /\ hardcodedEmbeddings' = IF written
                                       THEN GeneratedTable[content]
                                       ELSE hardcodedEmbeddings
            /\ call' = [op |-> "generateEmbeddings",
                        content |-> content,
                        categories |-> categories,
                        written |-> written,
                        failed |-> FALSE]
    /\ UNCHANGED <<clientVars, serverVars>>

NextGenerate ==
    \/ GenerateEmbeddings
    \/ EmbedQuery
    \/ Return

\* The generator run on category files of all kinds, and the query embedding.
SpecGenerate == InitPure /\ [][NextGenerate]_vars

(***************************************************************************)
(* The Naver API client: processRequestParams, callNaverApi and the fetch  *)
(* functions that call it.                                                 *)
(***************************************************************************)
MaxTerms == 2

\* const maxRetries = 3
maxRetries == 3

\* null in a JSON document, written so that it compares with arrays
Null == <<[null |-> TRUE]>>

\* What a caller passes for the parameters when it passes no object.
Undefined == [undefined |-> TRUE]

\* Keyword groups of one or two groups with one to MaxTerms search terms.
TermLists == UNION {[1..n -> {<<97>>, <<98>>}] : n \in 1..MaxTerms}

KeywordGroups ==
    {<<[name |-> "x", param |-> p]>> : p \in TermLists}
    \cup {<<[name |-> "x", param |-> p], [name |-> "y", param |-> q]>> :
             p \in TermLists, q \in {<<<<97>>>>, <<<<98>>, <<97>>>>}}

\* Parameters of getNaverShoppingKeywordTrend, with and without the filters.
KeywordTrendParams ==
    {[startDate |-> "2024-01-01", endDate |-> "2024-01-31", timeUnit |-> "date",
      category |-> "50000000", keyword |-> k, device |-> "", ages |-> <<>>] :
        k \in KeywordGroups}
    \cup {[startDate |-> "2024-01-01", endDate |-> "2024-01-31", timeUnit |-> "date",
           category |-> "50000000", keyword |-> k, device |-> "pc", gender |-> "f",
           ages |-> <<"20">>] :
             k \in KeywordGroups}

\* Parameters of getNaverSearchTrend.
SearchTrendParams ==
    {[startDate |-> "2024-01-01", endDate |-> "2024-01-31", timeUnit |-> "month",
      keywordGroups |-> <<[groupName |-> "x", keywords |-> <<<<97>>, <<98>>>>]>>,
      age |-> a] : a \in {<<>>, <<"3">>}}

\* params.key && ..., for a string
Given(params, key) == key \in DOMAIN params /\ params[key] # ""

processRequestParams(params) ==
    [startDate |-> params.startDate, endDate |-> params.endDate, timeUnit |-> params.timeUnit]
    @@ (IF Given(params, "device") THEN [device |-> params.device] ELSE <<>>)
    @@ (IF Given(params, "gender") THEN [gender |-> params.gender] ELSE <<>>)
    @@ (IF "age" \in DOMAIN params /\ Len(params.age) > 0 THEN [age |-> params.age] ELSE <<>>)
    @@ [key \in DOMAIN params \ {"startDate", "endDate", "timeUnit", "device", "gender", "age"} |->
           params[key]]

\* The parameters fetchNaverShoppingKeywordTrend would pass on unchanged.
UnmodifiedParams(params) == params

\* modifiedParams: param.slice(0, 1) in every keyword group
ModifiedParams(params) ==
    [params EXCEPT !.keyword =
        [g \in 1..Len(params.keyword) |->
            [name |-> params.keyword[g].name,
             param |-> FirstN(params.keyword[g].param, 1)]]]

\* A basicResponse without its results.
basicResponseWithoutResults == [startDate |-> "", endDate |-> "", timeUnit |-> "date"]

basicResponse == [startDate |-> "", endDate |-> "", timeUnit |-> "date", results |-> <<>>]

\* What response.text() can deliver: text that is no JSON, JSON that is no
\* object (null, a number), an object without results, objects with results.
ResponseBodies ==
    {[json |-> FALSE], [json |-> TRUE, object |-> FALSE]}
    \cup {[json |-> TRUE, object |-> TRUE, data |-> d] :
            d \in {[errorMessage |-> "x"],
                   [startDate |-> "2024-01-01", endDate |-> "2024-01-31",
                    timeUnit |-> "month", results |-> <<>>],
                   [startDate |-> "2024-01-01", endDate |-> "2024-01-31",
                    timeUnit |-> "month", results |-> Null],
                   [startDate |-> "2024-01-01", endDate |-> "2024-01-31",
                    timeUnit |-> "month",
                    results |-> <<[title |-> "x", data |-> <<[period |-> "2024-01", ratio |-> 100]>>]>>]}}

\* A retry that goes on for ever.
ShouldRetryAlways(attempt) == TRUE

\* if (attempt < maxRetries)
ShouldRetry(attempt) == attempt < maxRetries

\* The catch block of the loop: wait and retry, or return the basic response
\* after the last attempt.  A timer that is still armed can only abort the
\* request that has failed.
Failed(n) ==
    IF ShouldRetry(n.attempt)
    THEN [n EXCEPT !.phase = "delay", !.timer = FALSE, !.events = Append(@, "fail")]
    ELSE [n EXCEPT !.phase = "resolved", !.timer = FALSE, !.events = Append(@, "fail"),
                   !.response = basicResponse]

\* The loop body up to `await fetch': processRequestParams throws for
\* parameters that are no object; otherwise the timer is armed where there
\* is an AbortController and the request is sent.
BeginAttempt(n, attempt) ==
    IF n.request = Undefined
    THEN Failed([n EXCEPT !.attempt = attempt])
    ELSE [n EXCEPT !.attempt = attempt,
                   !.phase = "fetch",
                   !.timer = n.abortable,
                   !.sent = Append(@, processRequestParams(n.request)),
                   !.events = Append(@, "fetch")]

\* callNaverApi(apiUrl, params, errorPrefix) up to its first await
callNaverApi(api, params, request, abortable) ==
    BeginAttempt([phase |-> "idle", api |-> api, params |-> params, request |-> request,
                  abortable |-> abortable, attempt |-> 0, timer |-> FALSE,
                  sent |-> <<>>, events |-> <<>>, data |-> <<>>, response |-> <<>>], 1)

\* fetchNaverSearchTrend(params), called as a library function
FetchNaverSearchTrend ==
    /\ naver.phase = "idle"
    /\ call.op = "none"
    /\ rpc.phase = "idle"
    /\ \E params \in SearchTrendParams \cup {Undefined}, abortable \in BOOLEAN :
         naver' = callNaverApi("search", params, params, abortable)
    /\ UNCHANGED <<hardcodedEmbeddings, call, serverVars, rpc, embeddingPipeline,
                   getEmbeddingCalls>>

\* fetchNaverShoppingKeywordTrend(params), called as a library function
FetchNaverShoppingKeywordTrend ==
    /\ naver.phase = "idle"
    /\ call.op = "none"
    /\ rpc.phase = "idle"
    /\ \E params \in KeywordTrendParams, abortable \in BOOLEAN :
         naver' = callNaverApi("keyword", params, ModifiedParams(params), abortable)
    /\ UNCHANGED <<hardcodedEmbeddings, call, serverVars, rpc, embeddingPipeline,
                   getEmbeddingCalls>>

\* fetch resolves with the response headers: clearTimeout
FetchResponds ==
    /\ naver.phase = "fetch"
    /\ \E ok \in BOOLEAN :
         naver' = [naver EXCEPT !.timer = FALSE,
                                !.phase = IF ok THEN "text" ELSE "errorJson"]
    /\ UNCHANGED <<hardcodedEmbeddings, call, serverVars, rpc, embeddingPipeline,
                   getEmbeddingCalls>>

\* fetch rejects: a network error
FetchRejects ==
    /\ naver.phase = "fetch"
    /\ naver' = Failed(naver)
    /\ UNCHANGED <<hardcodedEmbeddings, call, serverVars, rpc, embeddingPipeline,
                   getEmbeddingCalls>>

\* setTimeout(() => controller.abort(), timeoutMs) fires: fetch rejects
\* with an AbortError
TimeoutFires ==
    /\ naver.phase = "fetch"
    /\ naver.timer
    /\ naver' = Failed(naver)
    /\ UNCHANGED <<hardcodedEmbeddings, call, serverVars, rpc, embeddingPipeline,
                   getEmbeddingCalls>>

\* if (!response.ok): await response.json() resolves or rejects, and the
\* error is thrown
ErrorBodyRead ==
    /\ naver.phase = "errorJson"
    /\ naver' = Failed(naver)
    /\ UNCHANGED <<hardcodedEmbeddings, call, serverVars, rpc, embeddingPipeline,
                   getEmbeddingCalls>>

\* await response.text() resolves: JSON.parse, the validity check and the
\* results added where there are none
TextArrives ==
    /\ naver.phase = "text"
    /\ \E body \in ResponseBodies :
         naver' = IF body.json /\ body.object
                  THEN [naver EXCEPT
                           !.phase = "resolved",
                           !.events = Append(@, "success"),
                           !.data = body.data,
                           !.response = IF "results" \in DOMAIN body.data
                                        THEN body.data
                                        ELSE body.data @@ [results |-> <<>>]]
                  ELSE Failed(naver)
    /\ UNCHANGED <<hardcodedEmbeddings, call, serverVars, rpc, embeddingPipeline,
                   getEmbeddingCalls>>

\* await response.text() rejects
TextFails ==
    /\ naver.phase = "text"
    /\ naver' = Failed(naver)
    /\ UNCHANGED <<hardcodedEmbeddings, call, serverVars, rpc, embeddingPipeline,
                   getEmbeddingCalls>>

\* setTimeout(resolve, retryDelay) fires: continue
RetryDelayElapses ==
    /\ naver.phase = "delay"
    /\ naver' = BeginAttempt([naver EXCEPT !.events = Append(@, "delay")], naver.attempt + 1)
    /\ UNCHANGED <<hardcodedEmbeddings, call, serverVars, rpc, embeddingPipeline,
                   getEmbeddingCalls>>

\* if (!response || !response.results) return createErrorResponse(...)
NoResults(response) == "results" \notin DOMAIN response \/ response.results = Null

\* The tool handler that awaited the fetch function goes on with the
\* response: an error response if there are no results, else the formatted
\* result.
HandlerReturns ==
    /\ naver.phase = "resolved"
    /\ rpc.phase = "idle"
    /\ naver' = [phase |-> "idle"]
    /\ call' = [op |-> "toolResult",
                api |-> naver.api,
                events |-> naver.events,
                response |-> naver.response,
                isError |-> NoResults(naver.response)]
    /\ UNCHANGED <<hardcodedEmbeddings, serverVars, rpc, embeddingPipeline,
                   getEmbeddingCalls>>

(***************************************************************************)
(* The result formatters: formatSearchTrendResult, formatShoppingTrendResult.*)
(* Periods and titles are strings of code units, ratios are integers.      *)
(***************************************************************************)
MaxItems == 2

\* a.localeCompare(b) < 0 for strings of digits: the order of the first
\* code unit in which they differ, a proper prefix coming first
RECURSIVE LocaleLess(_, _)
LocaleLess(a, b) ==
    IF b = <<>> THEN FALSE
    ELSE IF a = <<>> THEN TRUE
    ELSE IF Head(a) # Head(b) THEN Head(a) < Head(b)
    ELSE LocaleLess(Tail(a), Tail(b))

\* !result || typeof result !== 'object' || !result.title || !Array.isArray(result.data)
UsableResult(result) ==
    /\ "title" \in DOMAIN result
    /\ result.title # <<>>
    /\ "data" \in DOMAIN result

\* !item || typeof item !== 'object' || !item.period
UsableItem(item) == "period" \in DOMAIN item /\ item.period # <<>>

\* Number(ratio) || 0
RatioOrZero(item) == IF "ratio" \in DOMAIN item THEN item.ratio ELSE 0

\* What results.forEach pushes, in the order in which it pushes.
Pushed(results) ==
    Concat([r \in 1..Len(results) |->
              IF UsableResult(results[r])
              THEN LET usable == SelectSeq(results[r].data, UsableItem)
                   IN [k \in 1..Len(usable) |->
                          [title |-> results[r].title,
                           period |-> usable[k].period,
                           ratio |-> RatioOrZero(usable[k])]]
              ELSE <<>>])

RECURSIVE InsertByRatio(_, _)
\* The place of an item in a list in descending order of ratio, behind the
\* items of the same ratio.
InsertByRatio(sorted, item) ==
    IF sorted = <<>> THEN <<item>>
    ELSE IF Head(sorted).ratio >= item.ratio
         THEN <<Head(sorted)>> \o InsertByRatio(Tail(sorted), item)
         ELSE <<item>> \o sorted

\* The items left in the order in which they were pushed.
NotSortedByRatio(items) == items

RECURSIVE SortByRatio(_)
\* items.sort((a, b) => (b.ratio || 0) - (a.ratio || 0)), a stable sort
SortByRatio(items) ==
    IF items = <<>> THEN <<>>
    ELSE InsertByRatio(SortByRatio(SubSeq(items, 1, Len(items) - 1)), items[Len(items)])

RECURSIVE InsertByPeriod(_, _)
InsertByPeriod(sorted, entry) ==
    IF sorted = <<>> THEN <<entry>>
    ELSE IF LocaleLess(entry.period, Head(sorted).period)
         THEN <<entry>> \o sorted
         ELSE <<Head(sorted)>> \o InsertByPeriod(Tail(sorted), entry)

RECURSIVE SortByPeriod(_)
\* .sort((a, b) => a.period.localeCompare(b.period)), a stable sort
SortByPeriod(entries) ==
    IF entries = <<>> THEN <<>>
    ELSE InsertByPeriod(SortByPeriod(SubSeq(entries, 1, Len(entries) - 1)),
                        entries[Len(entries)])

\* Array.from(periodMap.entries()).map(...).sort(...): the periods in the
\* order of their first item, each with its items sorted, then sorted.
FormattedData(results) ==
    LET pushed == Pushed(results)
        periods == Unique([k \in 1..Len(pushed) |-> pushed[k].period])
    IN SortByPeriod([p \in 1..Len(periods) |->
           [period |-> periods[p],
            items |-> SortByRatio(
                LET ofPeriod == SelectSeq(pushed, LAMBDA item : item.period = periods[p])
                IN [k \in 1..Len(ofPeriod) |->
                       [name |-> ofPeriod[k].title, ratio |-> ofPeriod[k].ratio]])]])

\* if (formattedData.length === 0 && results.length > 0): an entry for the
\* current month with the titles of the results and ratio 0
EmptyData(results, now) ==
    LET titled == SelectSeq(results, LAMBDA r : "title" \in DOMAIN r /\ r.title # <<>>)
    IN IF titled = <<>> THEN <<>>
       ELSE <<[period |-> now,
               items |-> [k \in 1..Len(titled) |-> [name |-> titled[k].title, ratio |-> 0]]]>>

\* formatSearchTrendResult(response) and formatShoppingTrendResult(response),
\* which differ in the title and in the names of the keys
formatTrendResult(response, now) ==
    LET results == response.results
        formattedData == FormattedData(results)
    IN [startDate |-> response.startDate,
        endDate |-> response.endDate,
        timeUnit |-> response.timeUnit,
        data |-> IF formattedData = <<>> /\ results # <<>>
                 THEN EmptyData(results, now)
                 ELSE formattedData]

\* The items of a result: periods "1" and "2" or none, with and without a
\* ratio.
TrendItems ==
    {[period |-> p, ratio |-> r] : p \in {<<49>>, <<50>>, <<>>}, r \in {50, 100}}
    \cup {[period |-> <<49>>]}

\* The results of a response: a first result with up to MaxItems items and
\* with or without a title, alone or followed by one of three others.
TrendResults ==
    LET first == {[title |-> t, data |-> d] :
                     t \in {<<120>>, <<>>},
                     d \in UNION {[1..n -> TrendItems] : n \in 0..MaxItems}}
        second == {[title |-> <<121>>,
                    data |-> <<[period |-> <<50>>, ratio |-> 100],
                               [period |-> <<49>>, ratio |-> 75]>>],
                   [title |-> <<120>>, data |-> <<[period |-> <<49>>, ratio |-> 100]>>],
                   [title |-> <<121>>, data |-> <<>>]}
    IN {<<>>} \cup {<<f>> : f \in first} \cup {<<f, g>> : f \in first, g \in second}

\* formatSearchTrendResult(response) or formatShoppingTrendResult(response)
FormatTrendResult ==
    /\ call.op = "none"
    /\ naver.phase = "idle"
    /\ rpc.phase = "idle"
    /\ \E results \in TrendResults, api \in {"search", "shopping"} :
         LET response == [startDate |-> "2024-01-01", endDate |-> "2024-01-31",
                          timeUnit |-> "month", results |-> results]
         IN call' = [op |-> "formatTrendResult",
                     api |-> api,
                     response |-> response,
                     formatted |-> formatTrendResult(response, <<50, 48, 50, 54, 45, 49, 49>>)]
    /\ UNCHANGED <<clientVars, hardcodedEmbeddings, serverVars>>

NextNaver ==
    \/ FetchNaverSearchTrend
    \/ FetchNaverShoppingKeywordTrend
    \/ FetchResponds
    \/ FetchRejects
    \/ TimeoutFires
    \/ ErrorBodyRead
    \/ TextArrives
    \/ TextFails
    \/ RetryDelayElapses
    \/ HandlerReturns
    \/ FormatTrendResult
    \/ Return

\* The Naver API client called as a library.
SpecNaver == InitPure /\ [][NextNaver]_vars

(***************************************************************************)
(* The HTTP JSON-RPC endpoint: the handler of POST / in httpServer.ts.     *)
(* rpc is the request being served: its body, the tool handler invoked for *)
(* it, and the responses written to res.                                   *)
(***************************************************************************)
\* toolHandlers: the handler behind each registered name.  The handlers that
\* registerTools registers catch what they throw; registerToolHandler is
\* exported and takes any function, for which "aTool" stands.
toolHandlers ==
    [getNaverSearchTrend |-> "fetchNaverSearchTrend",
     searchShoppingCategory |-> "searchCategories",
     aTool |-> "any"]

\* The bodies of the requests, after express.json(): with and without
\* method, jsonrpc, id and params, the params with and without a name and
\* parameters.
HttpRequests ==
    {method @@ jsonrpc @@ id @@ params :
        method \in {<<>>, [method |-> "callTool"], [method |-> "listTools"]},
        jsonrpc \in {<<>>, [jsonrpc |-> "2.0"]},
        id \in {<<>>, [id |-> 7]},
        params \in {<<>>}
            \cup {[params |-> name @@ parameters] :
                    name \in {<<>>} \cup {[name |-> n] :
                                 n \in DOMAIN toolHandlers \cup {"noSuchTool"}},
                    parameters \in {<<>>,
                        [parameters |-> [startDate |-> "2024-01-01",
                                         endDate |-> "2024-01-31",
                                         timeUnit |-> "month",
                                         keywordGroups |-> <<[groupName |-> "x",
                                                              keywords |-> <<<<97>>>>]>>,
                                         age |-> <<>>]]}}}

\* The id of a request in a response: JSON.stringify leaves out a key whose
\* value is undefined.
IdOf(request) == IF "id" \in DOMAIN request THEN [id |-> request.id] ELSE <<>>

\* createJsonRpcErrorResponse(id, code, message) sent with a status
ErrorResponse(status, request, code) ==
    [status |-> status,
     body |-> [jsonrpc |-> "2.0", error |-> code] @@ IdOf(request)]

\* res.json({ jsonrpc: '2.0', result, id })
ResultResponse(request) ==
    [status |-> 200,
     body |-> [jsonrpc |-> "2.0", result |-> "result"] @@ IdOf(request)]

\* !request || !request.method || !request.jsonrpc || !request.params
Malformed(request) ==
    \/ "method" \notin DOMAIN request
    \/ "jsonrpc" \notin DOMAIN request
    \/ "params" \notin DOMAIN request

\* toolHandlers.has(name) for the name of the params
HasHandler(request) ==
    /\ "name" \in DOMAIN request.params
    /\ request.params.name \in DOMAIN toolHandlers

\* The parameters that the handler is called with.
ParametersOf(request) ==
    IF "parameters" \in DOMAIN request.params THEN request.params.parameters
    ELSE Undefined

Answered(request, invoked, response) ==
    [phase |-> "answered", request |-> request, invoked |-> invoked,
     responses |-> <<response>>]

\* A POST arrives and is handled up to the response or to the first
\* suspension of the handler it invokes.
PostArrives ==
    /\ rpc.phase = "idle"
    /\ naver.phase = "idle"
    /\ call.op = "none"
    /\ \E request \in HttpRequests, abortable \in BOOLEAN :
         IF Malformed(request)
         THEN /\ rpc' = Answered(request, "none", ErrorResponse(400, request, -32600))
              /\ naver' = naver
         ELSE IF request.method # "callTool"
         THEN /\ rpc' = Answered(request, "none", ErrorResponse(200, request, -32601))
              /\ naver' = naver
         ELSE IF ~HasHandler(request)
         THEN /\ rpc' = Answered(request, "none", ErrorResponse(404, request, -32601))
              /\ naver' = naver
         ELSE /\ rpc' = [phase |-> "handler", request |-> request,
                         invoked |-> request.params.name, responses |-> <<>>]
              /\ naver' = IF toolHandlers[request.params.name] = "fetchNaverSearchTrend"
                          THEN callNaverApi("search", ParametersOf(request),
                                            ParametersOf(request), abortable)
                          ELSE naver
    /\ UNCHANGED <<hardcodedEmbeddings, call, serverVars, embeddingPipeline,
                   getEmbeddingCalls>>

\* The handler of getNaverSearchTrend got the response of fetchNaverSearchTrend
\* and returns its result: res.json({ jsonrpc, result, id }).
NaverHandlerResolves ==
    /\ rpc.phase = "handler"
    /\ toolHandlers[rpc.invoked] = "fetchNaverSearchTrend"
    /\ naver.phase = "resolved"
    /\ naver' = [phase |-> "idle"]
    /\ rpc' = [rpc EXCEPT !.phase = "answered",
                          !.responses = Append(@, ResultResponse(rpc.request))]
    /\ UNCHANGED <<hardcodedEmbeddings, call, serverVars, embeddingPipeline,
                   getEmbeddingCalls>>

\* A handler that calls no API returns its result.
HandlerResolves ==
    /\ rpc.phase = "handler"
    /\ toolHandlers[rpc.invoked] \in {"searchCategories", "any"}
    /\ rpc' = [rpc EXCEPT !.phase = "answered",
                          !.responses = Append(@, ResultResponse(rpc.request))]
    /\ UNCHANGED <<naver, hardcodedEmbeddings, call, serverVars, embeddingPipeline,
                   getEmbeddingCalls>>

\* The error response left out: the request stays without an answer.
UnansweredThrow(r) == [r EXCEPT !.phase = "answered"]

\* catch (error) { return res.json(createJsonRpcErrorResponse(id, -32000, ...)) }
AnswerThrow(r) ==
    [r EXCEPT !.phase = "answered",
              !.responses = Append(@, ErrorResponse(200, r.request, -32000))]

\* A handler throws.
HandlerThrows ==
    /\ rpc.phase = "handler"
    /\ toolHandlers[rpc.invoked] = "any"
    /\ rpc' = AnswerThrow(rpc)
    /\ UNCHANGED <<naver, hardcodedEmbeddings, call, serverVars, embeddingPipeline,
                   getEmbeddingCalls>>

\* The response has gone out and the endpoint serves the next request.
ResponseSent ==
    /\ rpc.phase = "answered"
    /\ rpc' = [phase |-> "idle"]
    /\ UNCHANGED <<naver, hardcodedEmbeddings, call, serverVars, embeddingPipeline,
                   getEmbeddingCalls>>

NextHttp ==
    \/ PostArrives
    \/ FetchResponds
    \/ FetchRejects
    \/ TimeoutFires
    \/ ErrorBodyRead
    \/ TextArrives
    \/ TextFails
    \/ RetryDelayElapses
    \/ NaverHandlerResolves
    \/ HandlerResolves
    \/ HandlerThrows
    \/ ResponseSent

SpecHttp == InitPure /\ [][NextHttp]_vars

\* The endpoint with its scheduling: what the process itself does, and its
\* timers, happen in the end; what the network does may never happen.
SpecHttpFair ==
    /\ SpecHttp
    /\ WF_vars(TimeoutFires)
    /\ WF_vars(RetryDelayElapses)
    /\ WF_vars(NaverHandlerResolves)
    /\ WF_vars(HandlerResolves \/ HandlerThrows)
    /\ WF_vars(ResponseSent)

(***************************************************************************)
(* The embedding pipeline of the store: initEmbeddingPipeline and the      *)
(* calls of getEmbedding that run at the same time.  embeddingPipeline is  *)
(* the module's variable, 0 for null and otherwise the number of the call  *)
(* whose pipeline(...) made the instance; getEmbeddingCalls has one record *)
(* for each call of getEmbedding.                                          *)
(***************************************************************************)
MaxCallers == 3

\* The calls of pipeline('feature-extraction', ...) made so far.
PipelineConstructions ==
    {k \in 1..Len(getEmbeddingCalls) : getEmbeddingCalls[k].constructed}

\* getEmbedding(text) up to its first suspension: initEmbeddingPipeline tests
\* !embeddingPipeline and either calls pipeline(...) and waits for it, or
\* returns the instance it found.
GetEmbedding ==
    /\ Len(getEmbeddingCalls) < MaxCallers
    /\ getEmbeddingCalls' = Append(getEmbeddingCalls,
          IF embeddingPipeline = 0
          THEN [pc |-> "loading", constructed |-> TRUE, instance |-> 0]
          ELSE [pc |-> "loaded", constructed |-> FALSE, instance |-> embeddingPipeline])
    /\ UNCHANGED <<embeddingPipeline, naver, rpc, hardcodedEmbeddings, call, serverVars>>

\* The promise of pipeline(...) resolves: the assignment to embeddingPipeline
\* and the return of its value.
PipelineLoads ==
    \E k \in 1..Len(getEmbeddingCalls) :
        /\ getEmbeddingCalls[k].pc = "loading"
        /\ embeddingPipeline' = k
        /\ getEmbeddingCalls' =
              [getEmbeddingCalls EXCEPT ![k].pc = "loaded", ![k].instance = k]
        /\ UNCHANGED <<naver, rpc, hardcodedEmbeddings, call, serverVars>>

\* The promise of pipeline(...) rejects, and getEmbedding with it.
PipelineFails ==
    \E k \in 1..Len(getEmbeddingCalls) :
        /\ getEmbeddingCalls[k].pc = "loading"
        /\ getEmbeddingCalls' = [getEmbeddingCalls EXCEPT ![k].pc = "failed"]
        /\ UNCHANGED <<embeddingPipeline, naver, rpc, hardcodedEmbeddings, call, serverVars>>

\* const output = await pipeline(text, ...): the call uses the instance that
\* initEmbeddingPipeline returned to it.
PipelineEmbeds ==
    \E k \in 1..Len(getEmbeddingCalls) :
        /\ getEmbeddingCalls[k].pc = "loaded"
        /\ getEmbeddingCalls' = [getEmbeddingCalls EXCEPT ![k].pc = "embedded"]
        /\ UNCHANGED <<embeddingPipeline, naver, rpc, hardcodedEmbeddings, call, serverVars>>

NextPipeline ==
    \/ GetEmbedding
    \/ PipelineLoads
    \/ PipelineFails
    \/ PipelineEmbeds

SpecPipeline == InitPure /\ [][NextPipeline]_vars

(***************************************************************************)
(* Properties of the hybrid ranker.                                        *)
(***************************************************************************)
Searched == call.op = "searchSimilarCategories"

\* The relevance flags of a scored entry against the call's query.
ExactFlag(r) == RelevanceTable[call.query][r.full_category_path].exact
InclusionFlag(r) == RelevanceTable[call.query][r.full_category_path].inclusion
WordMatch(r) ==
    \/ RelevanceTable[call.query][r.full_category_path].exact
    \/ RelevanceTable[call.query][r.full_category_path].inclusion
    \/ RelevanceTable[call.query][r.full_category_path].partial

\* Whether the scored entry passed the filter.
Retained(r) == \E k \in 1..Len(call.filtered) : call.filtered[k] = r

\* C1: the ranker returns at most `limit` results, every result carries the
\* id and path of some catalog entry, and no catalog entry is returned twice
\* (the results map one-to-one into the positions of the catalog).
C1_AtMostLimitFromCatalog ==
    Searched =>
        /\ Len(call.results) <= call.limit
        /\ \E pos \in [1..Len(call.results) -> 1..Len(hardcodedEmbeddings)] :
             /\ \A i, j \in 1..Len(call.results) : i # j => pos[i] # pos[j]
             /\ \A i \in 1..Len(call.results) :
                  /\ call.results[i].cat_id = hardcodedEmbeddings[pos[i]].cat_id
                  /\ call.results[i].full_category_path =
                         hardcodedEmbeddings[pos[i]].full_category_path

\* C1 witness: a search whose filter passed more entries than the limit, so
\* that the truncation cut the result down to exactly `limit` entries.
C1_Witness ==
    /\ Searched
    /\ Len(call.filtered) > call.limit
    /\ Len(call.results) = call.limit

\* The sort key (exact flag, containment flag, combined score) of a is >= the
\* key of b, compared lexicographically; a comparison with NaN is false.
KeyGeq(a, b) ==
    LET ea == IF ExactFlag(a) THEN 1 ELSE 0
        eb == IF ExactFlag(b) THEN 1 ELSE 0
        ia == IF InclusionFlag(a) THEN 1 ELSE 0
        ib == IF InclusionFlag(b) THEN 1 ELSE 0
    IN \/ ea > eb
       \/ ea = eb /\ ia > ib
       \/ ea = eb /\ ia = ib /\ ~a.similarity.nan /\ ~b.similarity.nan
                  /\ a.similarity.v >= b.similarity.v

KeyGreater(a, b) == KeyGeq(a, b) /\ ~KeyGeq(b, a)

\* C2: the returned sequence is the first `limit` entries of the filtered
\* catalog in descending key order: any result before another has a key >=
\* the other's, and no filtered entry left out has a strictly greater key
\* than a returned one.
C2_SortedByKey ==
    Searched =>
        /\ Len(call.results) = Min(call.limit, Len(call.filtered))
        /\ \A i, j \in 1..Len(call.results) :
             i < j => KeyGeq(call.results[i], call.results[j])
        /\ \A k \in 1..Len(call.filtered), i \in 1..Len(call.results) :
             (\A j \in 1..Len(call.results) : call.results[j] # call.filtered[k])
                 => ~KeyGreater(call.filtered[k], call.results[i])

\* C3 as claimed: an entry is discarded only if its combined score is below
\* 30 and it has no exact, containment or >0.6 overlap word match; a word
\* match rescues a score below 30 and every score >= 30 is retained.
C3_DiscardOnlyLowAndUnmatched ==
    Searched =>
        \A i \in 1..Len(call.scored) :
            \/ Retained(call.scored[i])
            \/ LessThan(call.scored[i].similarity, 30000) /\ ~WordMatch(call.scored[i])

\* C3 amended: an entry is retained exactly when its combined score is not
\* below 30 and it has an exact, containment or >0.6 overlap word match.
C3_RetainedIffScoreAndMatch ==
    Searched =>
        \A i \in 1..Len(call.scored) :
            Retained(call.scored[i])
                <=> (~LessThan(call.scored[i].similarity, 30000) /\ WordMatch(call.scored[i]))

\* C3 witness: a search that discarded an entry with a word match because
\* its combined score was below 30.
C3_Witness ==
    /\ Searched
    /\ \E i \in 1..Len(call.scored) :
         /\ WordMatch(call.scored[i])
         /\ LessThan(call.scored[i].similarity, 30000)
         /\ ~Retained(call.scored[i])

\* The catalog [A, B] of the worked example searched for "탄산수".
TansansuSearched ==
    /\ Searched
    /\ call.query = QueryTansansu
    /\ Len(hardcodedEmbeddings) = 2
    /\ hardcodedEmbeddings[1].full_category_path = PathFoodDrink
    /\ hardcodedEmbeddings[2].full_category_path = PathBookWeb

\* C4 as claimed: for the catalog [A, B] with unit-length vectors and the
\* query "탄산수" the result contains A, A has the exact-word-match flag,
\* and B is after A or absent.
C4_FoodDrinkAlwaysFirst ==
    TansansuSearched =>
        \E i \in 1..Len(call.results) :
            /\ call.results[i].full_category_path = PathFoodDrink
            /\ ExactFlag(call.results[i])
            /\ \A j \in 1..Len(call.results) :
                 call.results[j].full_category_path = PathBookWeb => i < j

\* C4 amended: A has the exact-word-match flag, lexical score 0.6 and
\* combined score 36 + 40 * (embedding similarity); when that score is not
\* below 30 the result is A alone, otherwise the result is empty; B is never
\* in the result.
C4_FoodDrinkFirstWhenScoreAllows ==
    TansansuSearched =>
        LET a == call.scored[1]
            cosine == CosineTable[call.query][hardcodedEmbeddings[1].embedding]
        IN /\ ExactFlag(a)
           /\ ~cosine.nan
           /\ a.similarity = Num(36000 + 40 * cosine.v)
           /\ a.similarity.v >= 30000 => call.results = <<a>>
           /\ a.similarity.v < 30000 => call.results = <<>>
           /\ \A j \in 1..Len(call.results) :
                call.results[j].full_category_path # PathBookWeb

\* C4 witness: the example searched with a stored vector of A against the
\* query's direction, yet close enough for A to be returned.
C4_Witness ==
    /\ TansansuSearched
    /\ call.scored[1].similarity.v < 36000
    /\ call.results = <<call.scored[1]>>

\* Every character of the text is white space (the empty text included).
IsBlank(text) == \A i \in 1..Len(text) : IsSpace(text[i])

\* C7: cosineSimilarity takes the denominator as 1 when a vector has zero
\* norm, so the embedding similarity against a zero query vector or a zero
\* stored vector is 0 and no entry's combined score is NaN.
C7_ZeroNormGuarded ==
    Searched =>
        \A i \in 1..Len(call.scored) :
            LET cosine == CosineTable[call.query][hardcodedEmbeddings[i].embedding]
            IN /\ ~cosine.nan
               /\ hardcodedEmbeddings[i].embedding = ZeroVector => cosine = Num(0)
               /\ ~call.scored[i].similarity.nan

\* C8: for an empty or whitespace-only query no catalog entry registers an
\* exact, containment or character-overlap word match, and the lexical path
\* score of every entry is 0.
C8_BlankQueryMatchesNothing ==
    (Searched /\ IsBlank(call.query)) =>
        \A i \in 1..Len(call.scored) :
            /\ ~WordMatch(call.scored[i])
            /\ calculatePathSimilarity(call.query, call.scored[i].full_category_path) = 0

\* C9: a search of an empty catalog returns the empty sequence, whatever
\* the query and the limit.
C9_EmptyCatalogEmptyResult ==
    (call.op \in {"searchSimilarCategories", "searchCategories"}
        /\ Len(hardcodedEmbeddings) = 0)
    => call.results = <<>>

\* C9 witness: searchSimilarCategories has answered over the empty catalog.
C9_Witness ==
    /\ Searched
    /\ Len(hardcodedEmbeddings) = 0
    /\ call.results = <<>>

(***************************************************************************)
(* Properties of the lexical path scorer and of the query embedding.       *)
(***************************************************************************)
Scored == call.op = "calculatePathSimilarity"

\* The query is one word and that word is a whole segment of the path.
SingleWordEqualsSegment ==
    LET queryWords == SplitWs(toLowerCase(call.query))
        pathParts == SplitPath(toLowerCase(call.categoryPath))
    IN /\ Len(queryWords) = 1
       /\ queryWords[1] # <<>>
       /\ \E j \in 1..Len(pathParts) : pathParts[j] = queryWords[1]

\* C5 as claimed: the scorer returns exactly 1.0 when the query is a single
\* word equal to one full segment of the path.
C5_ExactSegmentScoresOne ==
    (Scored /\ SingleWordEqualsSegment) => call.value = 1000

\* C5 amended: for such a query the scorer returns
\* min(1, (1 + 0.2 * exact + 0.1 * partial) / 2) with exact >= 1: at least
\* 0.6, and 1.0 exactly when 0.2 * exact + 0.1 * partial >= 1.
C5_ExactSegmentScoresHalfOfOnePlusBonus ==
    (Scored /\ SingleWordEqualsSegment) =>
        LET bonus == 200 * call.match.exactMatchCount + 100 * call.match.partialMatchCount
        IN /\ call.match.exactMatchCount >= 1
           /\ call.value = Min(1000, (1000 + bonus) \div 2)
           /\ call.value >= 600
           /\ call.value = 1000 <=> bonus >= 1000

\* C5 witness: a single-word query equal to a segment that scores 0.6.
C5_Witness ==
    /\ Scored
    /\ SingleWordEqualsSegment
    /\ call.match.exactMatchCount = 1
    /\ call.match.partialMatchCount = 0
    /\ call.value = 600

\* C6: the scorer returns a value in [0,1]: every query word's best score is
\* in [0,1], the match bonus is not negative, and the value is capped at 1
\* however many matches were counted.
C6_ScoreInUnitInterval ==
    Scored =>
        /\ call.value \in 0..1000
        /\ \A i \in 1..Len(call.match.wordScores) : call.match.wordScores[i] \in 0..1000
        /\ call.matchBonus >= 0

\* C6 witness: a score whose uncapped final similarity exceeds 1.
C6_Witness ==
    /\ Scored
    /\ (call.match.maxSimilarity \div Len(call.match.wordScores) + call.matchBonus) \div 2 > 1000
    /\ call.value = 1000

Embedded == call.op = "queryEmbedding"

\* The squared Euclidean norm is 1 within two percent.
NormOne(vec) == Abs(Dot(vec, vec) - 100000000) <= 2000000

\* Every whitespace-separated word of the text has character-code sum 0.
AllHashesZero(text) ==
    LET queryWords == SplitWs(toLowerCase(text))
    IN \A k \in 1..Len(queryWords) : wordHash(queryWords[k]) = 0

Decomposed == call.op = "decomposeHangul"

IsSyllable(c) == c \in 44032..55203

\* The number of code points the decomposer is to emit for a character.
JamoCount(c) == IF ~IsSyllable(c) THEN 1 ELSE IF ((c - 44032) % 28) # 0 THEN 3 ELSE 2

\* The position in the result before the jamo of character i.
JamoOffset(str, i) == SumSeq([j \in 1..(i - 1) |-> JamoCount(str[j])])

\* C12: decomposeHangul emits, for each character in turn, the leading
\* consonant (index div 588, in 0..18), the vowel ((index mod 588) div 28,
\* in 0..20) and, when index mod 28 is not 0, the trailing consonant of a
\* precomposed syllable, and the character itself otherwise.
C12_ThreeTwoOrOne ==
    Decomposed =>
        /\ Len(call.result) = JamoOffset(call.str, Len(call.str) + 1)
        /\ \A i \in 1..Len(call.str) :
             LET c == call.str[i]
                 at == JamoOffset(call.str, i)
                 index == c - 44032
             IN IF IsSyllable(c)
                THEN /\ (index \div 588) \in 0..18
                     /\ ((index % 588) \div 28) \in 0..20
                     /\ call.result[at + 1] = 4352 + (index \div 588)
                     /\ call.result[at + 2] = 4449 + ((index % 588) \div 28)
                     /\ (index % 28) # 0 => call.result[at + 3] = 4519 + (index % 28)
                ELSE call.result[at + 1] = c

\* C12 witness: a string of a syllable without a trailing consonant and a
\* syllable with one, decomposed into five code points.
C12_Witness ==
    /\ Decomposed
    /\ call.str = <<54616, 44053>>
    /\ Len(call.result) = 5

\* C13 as claimed: "한" decomposes into 2 components, "강" into 3 and "A"
\* into ["A"].
C13_HanTwoGangThree ==
    Decomposed =>
        /\ call.str = <<54620>> => Len(call.result) = 2
        /\ call.str = <<44053>> => Len(call.result) = 3
        /\ call.str = <<65>> => call.result = <<65>>

\* C13 amended: "한" decomposes into 3 components (its trailing consonant
\* included), "하" into 2, "강" into 3 and "A" into ["A"].
C13_HanThreeHaTwoGangThree ==
    Decomposed =>
        /\ call.str = <<54620>> => call.result = <<4370, 4449, 4523>>
        /\ call.str = <<54616>> => call.result = <<4370, 4449>>
        /\ call.str = <<44053>> => call.result = <<4352, 4449, 4540>>
        /\ call.str = <<65>> => call.result = <<65>>

\* C13 witness: "한" decomposed.
C13_Witness ==
    /\ Decomposed
    /\ call.str = <<54620>>
    /\ Len(call.result) = 3

(***************************************************************************)
(* Compound Word Splitter: what the two splitters return.                  *)
(***************************************************************************)
Split1 == call.op = "decomposeCompoundWord"
Split2 == call.op = "processKoreanWord"

Contains(seq, x) == \E i \in 1..Len(seq) : seq[i] = x

\* C14 (as stated): whichever splitter is called and whichever rule applied,
\* the result is non-empty and the original token is one of its elements.
C14_AlwaysContainsToken ==
    (Split1 \/ Split2) =>
        Len(call.result) > 0 /\ Contains(call.result, call.word)

\* C14 (amended): both splitters return a non-empty sequence; the indexing
\* splitter always contains the original token, while the query-side
\* splitter returns pieces that concatenate to the token and contains the
\* token only when it returns the token alone.
C14_NonEmptyAndTokenCovered ==
    /\ Split2 => Len(call.result) > 0 /\ Contains(call.result, call.word)
    /\ Split1 =>
         /\ Len(call.result) > 0
         /\ Concat(call.result) = call.word
         /\ Contains(call.result, call.word) <=> call.result = <<call.word>>

\* A token of odd length was cut into chunks, none of which is the token.
C14_Witness ==
    /\ Split1
    /\ Len(call.word) = 5
    /\ Len(call.result) = 3
    /\ ~Contains(call.result, call.word)

\* The pairs <<prefix, suffix>> of the pattern table.
PatternPairs ==
    UNION {{<<patterns[p].prefix, patterns[p].suffix[k]>> :
               k \in 1..Len(patterns[p].suffix)} : p \in 1..Len(patterns)}

\* The split the priority rule prescribes for a token.
ExpectedSplit(word) ==
    IF \E pair \in PatternPairs : word = pair[1] \o pair[2]
    THEN CHOOSE pair \in PatternPairs : word = pair[1] \o pair[2]
    ELSE IF Len(word) >= 4
    THEN [i \in 1..((Len(word) + 1) \div 2) |->
             SubSeq(word, (2 * i) - 1, Min(2 * i, Len(word)))]
    ELSE <<word>>

NoDuplicates(seq) == \A i, j \in 1..Len(seq) : seq[i] = seq[j] => i = j

\* C15 (as stated): either splitter returns exactly the split of the
\* priority rule: the pattern pair, else the 2-character chunks covering a
\* token of 4 or more characters, else the token alone.
C15_StrictPriority ==
    (Split1 \/ Split2) => call.result = ExpectedSplit(call.word)

\* C15 (amended): the query-side splitter returns exactly the split of the
\* priority rule; the indexing splitter returns a duplicate-free list that,
\* for a token of 4 or more characters, holds every full 2-character chunk
\* at an even offset and the prefix of every pattern the token starts with,
\* and in every case keeps the token itself next to the pieces.
C15_PriorityForQueriesUnionForIndexing ==
    /\ Split1 => call.result = ExpectedSplit(call.word)
    /\ Split2 =>
         /\ NoDuplicates(call.result)
         /\ Len(call.word) >= 4 =>
              /\ \A i \in 1..(Len(call.word) \div 2) :
                    Contains(call.result, SubSeq(call.word, (2 * i) - 1, 2 * i))
              /\ \A p \in 1..Len(indexPatterns) :
                    StartsWith(call.word, indexPatterns[p].prefix) =>
                        Contains(call.result, indexPatterns[p].prefix)
         /\ Contains(call.result, call.word)

\* "스마트폰" was split into "스마트" and "폰".
C15_Witness ==
    /\ Split1
    /\ call.word = <<49828, 47560, 53944, 54256>>
    /\ call.result = <<<<49828, 47560, 53944>>, <<54256>>>>

(***************************************************************************)
(* The scale of the similarity shown to the caller.                        *)
(***************************************************************************)
\* C16: every result of a search is shown with the percentage the ranker
\* stored for it (rounded to two decimals), so nothing above 100% is shown;
\* shown values are in hundredths of a percent.
C16_ShownOnTheStoredScale ==
    call.op \in {"createMcpResponse", "printTestResults"} =>
        \A i \in 1..Len(call.results) :
            /\ call.shown[i] = toFixed2(call.results[i].similarity)
            /\ ~call.shown[i].nan => call.shown[i].v <= 10000

(***************************************************************************)
(* The vector store across runs of the indexing pass.                      *)
(***************************************************************************)
RowsOf(rows, cat_id) == {k \in 1..Len(rows) : rows[k].cat_id = cat_id}

OneRowPerId(rows) == \A k \in 1..Len(rows) : RowsOf(rows, rows[k].cat_id) = {k}

\* C17: whatever runs of the indexing pass there were, the store (in memory
\* and saved) holds at most one vector per record id, and once the pass of
\* the running server has completed, the vector a search joins to a record
\* is the one that pass wrote for the record's path.
C17_OneVectorPerRecordFromLatestRun ==
    /\ OneRowPerId(db.category_embeddings)
    /\ OneRowPerId(db.file)
    /\ (call.op = "searchStore" /\ indexer.state = "done") =>
           \A k \in 1..Len(call.joined) :
               call.joined[k].embedding = PipelineTable[call.joined[k].full_category_path]

(***************************************************************************)
(* Batch indexing: what a failing item leaves in the store.                *)
(***************************************************************************)
\* The rows of the sequence that carry the id.
RowsWithId(rows, cat_id) ==
    LET same(r) == r.cat_id = cat_id
    IN SelectSeq(rows, same)

\* The records of the batches before the one that was started last.
EarlierBatches == 1..Min(Max(indexer.i - BatchSize, 0), Len(db.categories))

\* The rows of the sequence as a set.
RowSet(rows) == {rows[k] : k \in 1..Len(rows)}

\* C18: a step of the indexing pass, a failure of an item included, leaves
\* the rows of the records of earlier batches as they were, and every row it
\* adds is the complete row of a record of the batch in flight: the id of
\* the record with the vector of the record's path.
C18_FailureKeepsCommittedVectors ==
    [][(main = "serving" /\ main' = "serving" /\ indexer.state \in {"running", "failed"}) =>
          /\ \A k \in EarlierBatches :
                RowsWithId(db'.category_embeddings, db.categories[k].cat_id)
                    = RowsWithId(db.category_embeddings, db.categories[k].cat_id)
          /\ \A row \in RowSet(db'.category_embeddings) \ RowSet(db.category_embeddings) :
                \E k \in indexer.inflight : row = VectorRow(db.categories[k])]_vars

\* An item of the second batch has failed while another is still in flight,
\* with the vectors of the first batch stored.
C18_Witness ==
    /\ indexer.state = "failed"
    /\ indexer.i > BatchSize
    /\ indexer.inflight # {}
    /\ \A k \in 1..BatchSize :
          RowsWithId(db.category_embeddings, db.categories[k].cat_id) # <<>>

(***************************************************************************)
(* The store while requests are served.                                    *)
(***************************************************************************)
\* C19: whenever the server accepts tool calls, the indexing pass of this
\* start has ended and nothing of it is in flight, so no vector is written
\* while a search can be served.
C19_IndexedBeforeServing ==
    main = "serving" => indexer.state \in {"done", "failed"} /\ indexer.inflight = {}


(***************************************************************************)
(* Properties of the generator script.                                     *)
(***************************************************************************)
Generated == call.op = "generateEmbeddings" /\ call.written

\* The number of levels at which two paths have the same segment.
AgreeingLevels(path1, path2) ==
    Cardinality({i \in DOMAIN SplitPath(path1) \cap DOMAIN SplitPath(path2) :
                    SplitPath(path1)[i] = SplitPath(path2)[i]})

\* The entries of another id whose paths agree with the k-th entry's at more
\* than half of the levels of the longer path, in catalog order.
RelatedEntries(categories, k) ==
    SelectSeq(categories,
              LAMBDA other :
                  /\ other.cat_id # categories[k].cat_id
                  /\ 2 * AgreeingLevels(categories[k].full_category_path,
                                        other.full_category_path)
                        > Max(Len(SplitPath(categories[k].full_category_path)),
                              Len(SplitPath(other.full_category_path))))

FirstThree(list) == SubSeq(list, 1, Min(3, Len(list)))

\* C11 as stated: the indexing vector of an entry depends only on the
\* entry's text, so every vector of a generated file is the vector the
\* entry gets in a catalog that holds nothing else.
C11_IndexingDependsOnTextOnly ==
    Generated =>
        \A k \in 1..Len(hardcodedEmbeddings) :
            hardcodedEmbeddings[k].embedding
                = generateCategoryEmbedding(call.categories[k], <<call.categories[k]>>)

\* C11 amended: the query embedding is a function of the query text, and the
\* indexing vector of an entry depends on the catalog only through the entry
\* and the first three entries of another id, in catalog order, whose paths
\* agree with its path at more than half of the levels.
C11_IndexingDependsOnRelatedEntries ==
    /\ Generated =>
          /\ Len(hardcodedEmbeddings) = Len(call.categories)
          /\ \A k \in 1..Len(hardcodedEmbeddings) :
                hardcodedEmbeddings[k].embedding
                    = generateCategoryEmbedding(
                          call.categories[k],
                          <<call.categories[k]>>
                          \o FirstThree(RelatedEntries(call.categories, k)))
    /\ call.op = "queryEmbedding" => call.embedding = queryEmbeddingOf(call.query)

\* C11 witness: a generated file with an entry that has more than three
\* related entries and whose vector is not the one it gets alone.
C11_Witness ==
    /\ Generated
    /\ \E k \in 1..Len(hardcodedEmbeddings) :
          /\ Len(RelatedEntries(call.categories, k)) > 3
          /\ hardcodedEmbeddings[k].embedding
                # generateCategoryEmbedding(call.categories[k], <<call.categories[k]>>)

\* C20: a run of the generator whose load or save failed ends as a failure,
\* and a run whose load failed leaves the stored vectors as they were.
C20_StorageFailureIsSurfaced ==
    [][(call.op = "none" /\ call'.op = "generateEmbeddings") =>
          /\ (call'.content.kind # "data" \/ ~call'.written) => call'.failed
          /\ call'.content.kind # "data" => hardcodedEmbeddings' = hardcodedEmbeddings]_vars

(***************************************************************************)
(* Records without a stored vector.                                        *)
(***************************************************************************)
\* The row of the store has the id and the vector of the joined record.
HasRow(rows, record) ==
    \E k \in 1..Len(rows) :
        /\ rows[k].cat_id = record.cat_id
        /\ rows[k].embedding = record.embedding

\* C21: a search over the store scores and returns only records that have a
\* vector in the store at the time of the search, with that vector, also
\* while the indexing pass is still running.
C21_OnlyRecordsWithVector ==
    [][(call.op = "none" /\ call'.op = "searchStore") =>
          /\ \A k \in 1..Len(call'.joined) : HasRow(db.category_embeddings, call'.joined[k])
          /\ \A k \in 1..Len(call'.results) :
                /\ HasRow(db.category_embeddings, call'.results[k])
                /\ ~call'.results[k].similarity.nan]_vars

\* C21 witness: a search served while the pass is running, with some records
\* already stored and returned and others not yet stored.
C21_Witness ==
    /\ call.op = "searchStore"
    /\ indexer.state = "running"
    /\ call.results # <<>>
    /\ Len(call.joined) < Len(db.categories)
    /\ \E k \in 1..Len(db.categories) :
          \A j \in 1..Len(db.category_embeddings) :
              db.category_embeddings[j].cat_id # db.categories[k].cat_id

(***************************************************************************)
(* Properties of the word similarity.                                      *)
(***************************************************************************)
\* What a pair of sub-tokens is worth, in thousandths: 900 if equal, 700 if
\* one holds the other, else half the share of equal jamo, position by
\* position, in the longer jamo sequence.
SubTokenScore(a, b) ==
    LET ja == decomposeHangul(a)
        jb == decomposeHangul(b)
    IN IF a = b THEN 900
       ELSE IF Includes(a, b) \/ Includes(b, a) THEN 700
       ELSE (500 * Cardinality({i \in DOMAIN ja \cap DOMAIN jb : ja[i] = jb[i]}))
                \div Max(Len(ja), Len(jb))

\* The scores of all pairs of sub-tokens of the two compound splits.
SubTokenScores(w1, w2) ==
    {SubTokenScore(decomposeCompoundWord(w1)[i], decomposeCompoundWord(w2)[j]) :
        i \in 1..Len(decomposeCompoundWord(w1)), j \in 1..Len(decomposeCompoundWord(w2))}

\* C23: wordSimilarity is 1.0 exactly for equal words, and for distinct words
\* it is the greatest score of a pair of sub-tokens, between 0 and 0.9.
C23_ExactOrBestSubTokenPair ==
    call.op = "wordSimilarity" =>
        /\ call.value = 1000 <=> call.word1 = call.word2
        /\ call.word1 # call.word2 =>
              /\ call.value \in SubTokenScores(call.word1, call.word2)
              /\ \A x \in SubTokenScores(call.word1, call.word2) : x <= call.value
              /\ call.value \in 0..900

\* C23 witness: distinct words with an equal sub-token and with a pair of
\* sub-tokens that is scored by its jamo.
C23_Witness ==
    /\ call.op = "wordSimilarity"
    /\ call.word1 # call.word2
    /\ call.value = 900
    /\ \E a \in {decomposeCompoundWord(call.word1)[i] :
                    i \in 1..Len(decomposeCompoundWord(call.word1))},
          b \in {decomposeCompoundWord(call.word2)[j] :
                    j \in 1..Len(decomposeCompoundWord(call.word2))} :
          /\ ~Includes(a, b)
          /\ ~Includes(b, a)
          /\ SubTokenScore(a, b) < 500

(***************************************************************************)
(* The path scorer and the order of the path's words and segments.         *)
(***************************************************************************)
\* The sequence with its i-th and j-th elements exchanged.
Swapped(seq, i, j) ==
    [k \in 1..Len(seq) |-> IF k = i THEN seq[j] ELSE IF k = j THEN seq[i] ELSE seq[k]]

RECURSIVE JoinWords(_)
\* The words joined by single spaces.
JoinWords(words) ==
    IF words = <<>> THEN <<>>
    ELSE IF Len(words) = 1 THEN words[1]
    ELSE words[1] \o <<Space>> \o JoinWords(Tail(words))

\* The paths got from the path by exchanging two of its segments or two
\* words of one of its segments.
Reordered(categoryPath) ==
    LET pathParts == SplitPath(categoryPath)
    IN {JoinPath(Swapped(pathParts, i, j)) : i, j \in 1..Len(pathParts)}
       \cup UNION {{JoinPath([pathParts EXCEPT
                                  ![p] = JoinWords(Swapped(SplitWs(pathParts[p]), i, j))]) :
                        i, j \in 1..Len(SplitWs(pathParts[p]))} :
                    p \in 1..Len(pathParts)}

\* C29: the score of calculatePathSimilarity and its counts of exact and of
\* partial matches are the same for the path with two segments exchanged
\* and for the path with two words of a segment exchanged.
C29_OrderOfWordsAndSegmentsIsIrrelevant ==
    call.op = "calculatePathSimilarity" =>
        \A other \in Reordered(call.categoryPath) :
            /\ calculatePathSimilarity(call.query, other) = call.value
            /\ PathMatch(call.query, other).exactMatchCount = call.match.exactMatchCount
            /\ PathMatch(call.query, other).partialMatchCount = call.match.partialMatchCount

(***************************************************************************)
(* Properties of the Naver API client.                                     *)
(***************************************************************************)
\* C22: every request that getNaverShoppingKeywordTrend sends carries, for
\* each keyword group of the caller, the group's name and all of its search
\* terms, unchanged.
C22_EveryTermIsForwarded ==
    (naver.phase # "idle" /\ naver.api = "keyword") =>
        \A k \in 1..Len(naver.sent) :
            /\ Len(naver.sent[k].keyword) = Len(naver.params.keyword)
            /\ \A g \in 1..Len(naver.params.keyword) :
                  /\ naver.sent[k].keyword[g].name = naver.params.keyword[g].name
                  /\ naver.sent[k].keyword[g].param = naver.params.keyword[g].param

\* Every HTTP attempt but the first comes right after a failed attempt and
\* the retry delay, and nothing follows a success.
AttemptsInOrder(events) ==
    \A k \in 1..Len(events) :
        /\ (events[k] = "fetch" /\ k > 1) =>
              /\ k > 3
              /\ events[k - 1] = "delay"
              /\ events[k - 2] = "fail"
              /\ events[k - 3] = "fetch"
        /\ events[k] = "success" => k = Len(events)

\* C25 as stated: every call of callNaverApi issues at least one and at most
\* three HTTP attempts, each but the first after a failed attempt and the
\* retry delay, and none after a success.
C25_OneToThreeAttempts ==
    naver.phase # "idle" =>
        /\ Len(naver.sent) <= 3
        /\ naver.phase = "resolved" => Len(naver.sent) >= 1
        /\ AttemptsInOrder(naver.events)

\* C25 amended: a call issues at most three HTTP attempts, each but the first
\* right after a failed attempt and the retry delay, and none after a
\* success; it issues at least one when its parameters are an object, and
\* none at all when they are not, the request being built inside the loop.
C25_AtMostThreeAttempts ==
    naver.phase # "idle" =>
        /\ Len(naver.sent) <= 3
        /\ naver.request # Undefined => Len(naver.sent) >= 1
        /\ naver.request = Undefined => naver.sent = <<>>
        /\ AttemptsInOrder(naver.events)
        /\ Len(naver.sent) = Len(SelectSeq(naver.events, LAMBDA e : e = "fetch"))

\* C25 witness: a call that succeeded at its third attempt.
C25_Witness ==
    /\ naver.phase = "resolved"
    /\ Len(naver.sent) = 3
    /\ naver.events[Len(naver.events)] = "success"

\* The number of failed attempts among the events.
Failures(events) == Len(SelectSeq(events, LAMBDA e : e = "fail"))

\* C26: a call of callNaverApi ends in no other way than by resolving.  After
\* a third failed attempt it resolves with the basic response, after a
\* success with the data received, to which empty results are added if it
\* has none; and the tool handler does not take its error branch after a
\* call whose attempts have all failed.
C26_NeverRejects ==
    /\ naver.phase \in {"idle", "fetch", "errorJson", "text", "delay", "resolved"}
    /\ naver.phase = "resolved" =>
          /\ "results" \in DOMAIN naver.response
          /\ naver.events[Len(naver.events)] = "fail" =>
                /\ Failures(naver.events) = 3
                /\ naver.response = basicResponse
          /\ naver.events[Len(naver.events)] = "success" =>
                /\ \A key \in DOMAIN naver.data : naver.response[key] = naver.data[key]
                /\ "results" \notin DOMAIN naver.data => naver.response.results = <<>>
    /\ (call.op = "toolResult" /\ call.events[Len(call.events)] = "fail") =>
          /\ ~call.isError
          /\ call.response = [startDate |-> "", endDate |-> "", timeUnit |-> "date",
                              results |-> <<>>]

\* C26 witness: a handler that got the basic response after three attempts
\* that failed, the last of them after the headers had arrived.
C26_Witness ==
    /\ call.op = "toolResult"
    /\ Failures(call.events) = 3
    /\ Len(SelectSeq(call.events, LAMBDA e : e = "fetch")) = 3
    /\ ~call.isError

\* C30: no attempt can wait for ever: wherever there is an AbortController,
\* a call that waits for the network -- for the response headers or for the
\* response body -- has the timeout of its attempt armed, and it is in one of
\* at most three attempts.
C30_EveryWaitHasItsTimeout ==
    (naver.phase \in {"fetch", "errorJson", "text"} /\ naver.abortable) =>
        /\ naver.timer
        /\ naver.attempt \in 1..3

(***************************************************************************)
(* The result formatters                                                   *)
(***************************************************************************)
\* How often a data point stands in a response: in a result with that
\* title, an item with that period and that ratio (no ratio counts as 0).
TimesInResponse(response, title, period, ratio) ==
    Cardinality({<<r, k>> \in (1..Len(response.results)) \X (1..MaxItems + 1) :
        /\ response.results[r].title = title
        /\ k <= Len(response.results[r].data)
        /\ "period" \in DOMAIN response.results[r].data[k]
        /\ response.results[r].data[k].period = period
        /\ RatioOrZero(response.results[r].data[k]) = ratio})

\* How often a data point stands in the formatted data, under that period.
TimesInData(data, title, period, ratio) ==
    Cardinality({<<p, k>> \in (1..Len(data)) \X (1..2 * (MaxItems + 1)) :
        /\ data[p].period = period
        /\ k <= Len(data[p].items)
        /\ data[p].items[k] = [name |-> title, ratio |-> ratio]})

\* C24: the formatters regroup the results by period: every data point with a
\* title and a period stands in the output as often as in the response and
\* under its period, the periods ascend with none repeated, and the items of
\* a period descend by ratio.
C24_RegroupedByPeriod ==
    call.op = "formatTrendResult" =>
        LET data == call.formatted.data
        IN /\ \A title \in {<<120>>, <<121>>}, period \in {<<49>>, <<50>>},
                 ratio \in {0, 50, 75, 100} :
                 TimesInResponse(call.response, title, period, ratio) > 0 =>
                     TimesInData(data, title, period, ratio)
                         = TimesInResponse(call.response, title, period, ratio)
           /\ \A p, q \in 1..Len(data) :
                 p < q => LocaleLess(data[p].period, data[q].period)
           /\ \A p \in 1..Len(data) : \A k \in 1..Len(data[p].items) - 1 :
                 data[p].items[k].ratio >= data[p].items[k + 1].ratio

\* C24 witness: a response whose first result names period "2" before period
\* "1" and whose second result has the higher ratios, formatted into two
\* periods in which the second result's items come first.
C24_Witness ==
    /\ call.op = "formatTrendResult"
    /\ Len(call.response.results) = 2
    /\ Len(call.response.results[1].data) = 2
    /\ call.response.results[1].data[1] = [period |-> <<50>>, ratio |-> 50]
    /\ Len(call.formatted.data) = 2
    /\ call.formatted.data[1].period = <<49>>
    /\ \A p \in 1..2 :
          /\ Len(call.formatted.data[p].items) = 2
          /\ call.formatted.data[p].items[1].name = <<121>>
          /\ call.formatted.data[p].items[1].ratio > call.formatted.data[p].items[2].ratio

(***************************************************************************)
(* The embedding pipeline                                                  *)
(***************************************************************************)
\* C28: the pipeline is created at most once: whatever the interleaving of
\* the calls of getEmbedding, pipeline(...) is called at most one time and
\* all the calls that have an instance have the same one.
C28_PipelineCreatedAtMostOnce ==
    /\ Cardinality(PipelineConstructions) <= 1
    /\ \A j, k \in 1..Len(getEmbeddingCalls) :
          (getEmbeddingCalls[j].instance # 0 /\ getEmbeddingCalls[k].instance # 0)
              => getEmbeddingCalls[j].instance = getEmbeddingCalls[k].instance

(***************************************************************************)
(* The HTTP JSON-RPC endpoint                                              *)
(***************************************************************************)
\* C27, its first part: every POST is answered: a request that the endpoint
\* has taken up is answered in the end.
C27_EveryPostIsAnswered == (rpc.phase = "handler") ~> (rpc.phase = "answered")

\* C27, the rest: an answered request has exactly one response; a handler was
\* invoked only for a request with method, jsonrpc and params whose method is
\* callTool and whose tool is registered; every other request has an error
\* with its id, -32600 if malformed and -32601 otherwise; and a request whose
\* handler was invoked has a result or the error -32000.
C27_RoutingAndErrorCodes ==
    /\ rpc.phase = "handler" => rpc.responses = <<>>
    /\ rpc.phase \in {"handler", "answered"} =>
          LET request == rpc.request
              wellFormed == {"method", "jsonrpc", "params"} \subseteq DOMAIN request
              toolCall == /\ wellFormed
                          /\ request.method = "callTool"
                          /\ "name" \in DOMAIN request.params
                          /\ request.params.name \in DOMAIN toolHandlers
          IN /\ rpc.invoked # "none" <=> toolCall
             /\ rpc.phase = "answered" =>
                   /\ Len(rpc.responses) = 1
                   /\ LET body == rpc.responses[1].body
                      IN /\ body.jsonrpc = "2.0"
                         /\ ("id" \in DOMAIN body) = ("id" \in DOMAIN request)
                         /\ "id" \in DOMAIN body => body.id = request.id
                         /\ ~wellFormed => body = [jsonrpc |-> "2.0", error |-> -32600]
                                                      @@ IdOf(request)
                         /\ (wellFormed /\ ~toolCall) =>
                               body = [jsonrpc |-> "2.0", error |-> -32601]
                                          @@ IdOf(request)
                         /\ toolCall =>
                               \/ "result" \in DOMAIN body
                               \/ /\ "error" \in DOMAIN body
                                  /\ body.error = -32000

\* C27 witness: a request answered with -32000 after its handler threw.
C27_Witness ==
    /\ rpc.phase = "answered"
    /\ rpc.invoked = "aTool"
    /\ "error" \in DOMAIN rpc.responses[1].body
=============================================================================
